---- MODULE Spec2Model ----
(***************************************************************************)
(* Satellite-Orbit backend: the orbital-parameter validator, the satellite *)
(* record with its cached period, the orbit calculator of                  *)
(* backend/satellite_service.py, and the /api/satellites handlers of       *)
(* backend/server.py over the MongoDB `satellites` collection.             *)
(*                                                                         *)
(* Python floats are modelled in fixed point with four decimals:           *)
(* Fx(w, f) stands for w + f/10000.  NaN is the one non-number a float can *)
(* hold that the comparisons of the validator treat specially; every       *)
(* comparison with NaN is false, as in IEEE 754 / Python.                  *)
(***************************************************************************)
EXTENDS Integers, Sequences, FiniteSets, TLC

VARIABLES
    store,     \* db.satellites: the stored documents, in insertion order
    resp,      \* the response of the last request handled to completion
    vcall,     \* the last call of validate_orbital_parameters: arguments and result
    inflight,  \* per connection, the request being handled and where it stands
    sat,       \* the Satellite object the calculator calls are handed
    threads,   \* per thread, the calculator call it is in and where it stands
    configurations,  \* db.configurations, in insertion order
    preferences,     \* db.preferences, in insertion order
    positions,       \* db.positions, in insertion order
    settings   \* get_settings(): the Settings the process was started with

vars == <<store, resp, vcall, inflight, sat, threads, configurations, preferences,
          positions, settings>>

\* what the handlers leave alone, what the satellite handlers leave alone
\* besides, and what the calculator calls leave alone
calcvars == <<sat, threads>>
othervars == <<configurations, preferences, positions, settings>>
apivars == <<store, resp, vcall, inflight, configurations, preferences, positions, settings>>

----------------------------------------------------------------------------
(* Floats *)

Fx(w, f) == w * 10000 + f

NaN == 2 * 1000000000

IsNaN(x) == x = NaN

\* Python's  a < b  and  a <= b  on floats
FLt(a, b) == ~IsNaN(a) /\ ~IsNaN(b) /\ a < b
FLe(a, b) == ~IsNaN(a) /\ ~IsNaN(b) /\ a <= b
FGt(a, b) == FLt(b, a)

----------------------------------------------------------------------------
(* SatelliteService.validate_orbital_parameters *)

\* the messages, word by word
ErrAltitudeLow ==
    <<"Altitude", "must", "be", "above", "150km", "(atmospheric", "drag)">>
ErrAltitudeHigh ==
    <<"Altitude", "above", "35,786km", "not", "supported", "in", "this", "simulation">>
ErrInclination ==
    <<"Inclination", "must", "be", "between", "0°", "and", "180°">>
ErrEccentricity ==
    <<"Eccentricity", "must", "be", "between", "0", "and", "1", "(elliptical", "orbit)">>

\* AltitudeErrors with the lower bound made inclusive (altitude <= 150)
AltitudeErrors_InclusiveLow(altitude) ==
    IF FLe(altitude, Fx(150, 0)) THEN <<ErrAltitudeLow>>
    ELSE IF FGt(altitude, Fx(35786, 0)) THEN <<ErrAltitudeHigh>>
    ELSE <<>>

AltitudeErrors(altitude) ==
    IF FLt(altitude, Fx(150, 0)) THEN <<ErrAltitudeLow>>
    ELSE IF FGt(altitude, Fx(35786, 0)) THEN <<ErrAltitudeHigh>>
    ELSE <<>>

InclinationErrors(inclination) ==
    IF ~(FLe(Fx(0, 0), inclination) /\ FLe(inclination, Fx(180, 0)))
    THEN <<ErrInclination>> ELSE <<>>

EccentricityErrors(eccentricity) ==
    IF ~(FLe(Fx(0, 0), eccentricity) /\ FLt(eccentricity, Fx(1, 0)))
    THEN <<ErrEccentricity>> ELSE <<>>

validate_orbital_parameters(altitude, inclination, eccentricity) ==
    LET errors == AltitudeErrors(altitude) \o InclinationErrors(inclination)
                    \o EccentricityErrors(eccentricity)
    IN  [valid |-> Len(errors) = 0, errors |-> errors, warnings |-> <<>>]

\* "text in message"
Mentions(message, text) == \E i \in 1..Len(message) : message[i] = text

----------------------------------------------------------------------------
(* models.py: the Satellite record and its cached period *)

RECURSIVE IsqrtBetween(_, _, _)
\* the largest r in lo..hi with r * r <= n   (lo * lo <= n < (hi + 1) * (hi + 1))
IsqrtBetween(n, lo, hi) ==
    IF lo = hi THEN lo
    ELSE LET mid == (lo + hi + 1) \div 2
         IN  IF mid * mid <= n THEN IsqrtBetween(n, mid, hi)
             ELSE IsqrtBetween(n, lo, mid - 1)

\* floor of the square root, for 0 <= n < 2^31
Isqrt(n) == IsqrtBetween(n, 0, 46340)

\* calculate_period with pi taken as 3.14 (2 * 3.14 / 60 = 0.104667)
calculate_period_pi_3_14(altitude) ==
    IF IsNaN(altitude) \/ Fx(6371, 0) + altitude <= 0 THEN NaN
    ELSE LET semi_t == (Fx(6371, 0) + altitude) \div 1000
             r      == Isqrt(semi_t * 2508 + (semi_t * 78) \div 100)
             t      == (semi_t \div 10) * r + ((semi_t % 10) * r) \div 10
         IN  ((t \div 10000) * 10467) \div 100 + ((t % 10000) * 10467) \div 1000000

\* Satellite.calculate_period: 2 * 3.14159 * sqrt((6371 + altitude)^3 / mu) / 60
\* minutes, with mu = 398600.4418, evaluated in fixed point within 32-bit
\* integers as  semi * sqrt(semi / mu) * (2 * 3.14159 / 60):
\*   semi_t  the semi-major axis in tenths of a km,
\*   r       10^5 * sqrt(semi / mu)      (10^8 / mu = 250.878),
\*   t       semi (km) * r,
\*   result  t * 0.010472 in units of 1/10000 minute (2 * 3.14159 / 60 = 0.10472).
\* It agrees with the float formula to 0.005 % over the validated altitudes.
\* A NaN altitude gives a NaN period; so does a semi-major axis that is not
\* positive (Python gives a complex number or zero there, no valid period).
calculate_period(altitude) ==
    IF IsNaN(altitude) \/ Fx(6371, 0) + altitude <= 0 THEN NaN
    ELSE LET semi_t == (Fx(6371, 0) + altitude) \div 1000
             r      == Isqrt(semi_t * 2508 + (semi_t * 78) \div 100)
             t      == (semi_t \div 10) * r + ((semi_t % 10) * r) \div 10
         IN  ((t \div 10000) * 10472) \div 100 + ((t % 10000) * 10472) \div 1000000

\* fields of Satellite that have no default (SatelliteBase: name, type, altitude,
\* inclination, eccentricity; Satellite: period)
RequiredFields == {"name", "type", "altitude", "inclination", "eccentricity", "period"}

\* fields with a default: color, active (description, created_at and custom_params
\* also have defaults; no handler reads or writes them and they are left out of
\* the documents here), and id, whose default is a fresh uuid4
DefaultFields == [color |-> "#00ff88", active |-> TRUE]

\* Satellite with a default for period (period: float = 0.0): only the fields
\* of SatelliteBase are required
SatelliteRaises_period_optional(data) ==
    ~((RequiredFields \ {"period"}) \subseteq DOMAIN data)

\* Satellite(**data) raises a ValidationError when a required field is missing
SatelliteRaises(data) == ~(RequiredFields \subseteq DOMAIN data)

Merge(over, base) ==
    [k \in DOMAIN base \cup DOMAIN over |-> IF k \in DOMAIN over THEN over[k] ELSE base[k]]

\* Satellite(**data) for data that holds every required field; uuid is the value
\* the id default_factory gives when data has no id
Satellite(data, uuid) == Merge(data, Merge([id |-> uuid], DefaultFields))

\* SatelliteService.get_default_satellites (description left out)
get_default_satellites ==
    << [id |-> "iss", name |-> "International Space Station (ISS)", type |-> "Space Station",
        altitude |-> Fx(408, 0), inclination |-> Fx(51, 6000), eccentricity |-> Fx(0, 2),
        color |-> "#00ff88", active |-> TRUE],
       [id |-> "hubble", name |-> "Hubble Space Telescope", type |-> "Observatory",
        altitude |-> Fx(547, 0), inclination |-> Fx(28, 5000), eccentricity |-> Fx(0, 3),
        color |-> "#ff6b35", active |-> TRUE],
       [id |-> "gps-1", name |-> "GPS Satellite Block IIF-1", type |-> "Navigation",
        altitude |-> Fx(20200, 0), inclination |-> Fx(55, 0), eccentricity |-> Fx(0, 200),
        color |-> "#4f9eff", active |-> TRUE],
       [id |-> "gps-2", name |-> "GPS Satellite Block IIF-2", type |-> "Navigation",
        altitude |-> Fx(20200, 0), inclination |-> Fx(55, 0), eccentricity |-> Fx(0, 180),
        color |-> "#4f9eff", active |-> TRUE],
       [id |-> "gps-3", name |-> "GPS Satellite Block IIF-3", type |-> "Navigation",
        altitude |-> Fx(20200, 0), inclination |-> Fx(55, 0), eccentricity |-> Fx(0, 210),
        color |-> "#4f9eff", active |-> TRUE],
       [id |-> "landsat8", name |-> "Landsat 8", type |-> "Earth Observation",
        altitude |-> Fx(705, 0), inclination |-> Fx(98, 2000), eccentricity |-> Fx(0, 1),
        color |-> "#ff4081", active |-> TRUE] >>

----------------------------------------------------------------------------
(* db.satellites: the collection operations the handlers use *)

Min(a, b) == IF a <= b THEN a ELSE b

\* find().limit(n).to_list(n): the first n documents
FindLimit(st, n) == SubSeq(st, 1, Min(n, Len(st)))

\* the position of the first document with this id, 0 when there is none
IndexOf(st, id) ==
    LET matches == {i \in 1..Len(st) : st[i].id = id}
    IN  IF matches = {} THEN 0 ELSE CHOOSE i \in matches : \A j \in matches : i <= j

\* find_one({"id": id}) found a document
Found(st, id) == IndexOf(st, id) # 0

\* find_one({"id": id}), when Found
FindOne(st, id) == st[IndexOf(st, id)]

\* insert_one(doc)
InsertOne(st, doc) == Append(st, doc)

\* update_one({"id": id}, {"$set": fields}): the first match, if any, gets the fields
UpdateOne(st, id, fields) ==
    IF Found(st, id) THEN [st EXCEPT ![IndexOf(st, id)] = Merge(fields, @)] ELSE st

----------------------------------------------------------------------------
(* Optional[...]: None, or a value *)

None == <<>>
Some(v) == <<v>>

----------------------------------------------------------------------------
(* satellite_service.py: the orbit calculator.  Angles are radians in units of
   1/10000 (1/10^8 where the mean anomaly is accumulated), times are seconds,
   lengths km and scene coordinates, all in units of 1/10000 *)

\* math.pi: pi, pi / 2 and 2 * pi in units of 1/10000, 2 * pi in units of 1/10^8
Pi4 == 31416
HalfPi4 == 15708
TwoPi4 == 62832
TwoPi8 == 628318531

\* floor(a * b / m) for m > 0, without forming a * b
MulDiv(a, b, m) == (a \div m) * b + ((a % m) * b) \div m

\* sine and cosine on 0..pi/4 by their series, to the x^7 and x^6 terms
SinSeries(x) ==
    LET x2 == (x * x) \div 10000
        x3 == (x2 * x) \div 10000
        x5 == (x3 * x2) \div 10000
        x7 == (x5 * x2) \div 10000
    IN  x - x3 \div 6 + x5 \div 120 - x7 \div 5040

CosSeries(x) ==
    LET x2 == (x * x) \div 10000
        x4 == (x2 * x2) \div 10000
        x6 == (x4 * x2) \div 10000
    IN  10000 - x2 \div 2 + x4 \div 24 - x6 \div 720

\* sine on 0..pi/2
SinQuadrant(x) == IF 2 * x <= HalfPi4 THEN SinSeries(x) ELSE CosSeries(HalfPi4 - x)

\* math.sin and math.cos of any angle
Sin(angle) ==
    LET a == angle % TwoPi4
    IN  IF a <= HalfPi4 THEN SinQuadrant(a)
        ELSE IF a <= Pi4 THEN SinQuadrant(Pi4 - a)
        ELSE IF a <= Pi4 + HalfPi4 THEN 0 - SinQuadrant(a - Pi4)
        ELSE 0 - SinQuadrant(TwoPi4 - a)

Cos(angle) == Sin(angle + HalfPi4)

\* math.radians of an angle in degrees
Radians(degrees) == ((degrees \div 100) * Pi4) \div 18000

ZeroDivisionError == [raised |-> "ZeroDivisionError"]
Raised(result) == "raised" \in DOMAIN result

\* (2 * math.pi) / period_seconds, radians per second in units of 1/10^8; the
\* period in seconds is taken to 1/100 s
AngularRate(period_seconds) ==
    LET cs == period_seconds \div 100
    IN  IF cs > 0 THEN (TwoPi8 \div cs) * 100 + ((TwoPi8 % cs) * 100) \div cs
        ELSE 0 - ((TwoPi8 \div (0 - cs)) * 100 + ((TwoPi8 % (0 - cs)) * 100) \div (0 - cs))

RECURSIVE MulMod(_, _, _)
\* (a * b) % m for 0 <= a < m < 2^29 and b >= 0, without forming a * b
MulMod(a, b, m) ==
    IF b = 0 THEN 0
    ELSE (2 * MulMod(a, b \div 2, m) + (IF b % 2 = 1 THEN a ELSE 0)) % m

\* (rate * time_seconds) % (2 * math.pi), in units of 1/10^8, for a time that
\* is not negative: the whole seconds and the fraction of a second apart
WrappedAngle(rate, time_seconds) ==
    (MulMod(rate % TwoPi8, time_seconds \div 10000, TwoPi8)
        + (rate * (time_seconds % 10000)) \div 10000) % TwoPi8

\* x * scale with scale = 5 / earth_radius
Scaled(x) == MulDiv(x, 5, 6371)

NaNPosition == [x |-> NaN, y |-> NaN, z |-> NaN]

\* the period recalculated from the altitude in params instead of the one held
PeriodSeconds_from_altitude(params) == calculate_period(params.altitude) * 60

\* period_seconds = params.get('period', satellite.period) * 60, for a period
\* that is a number; params always holds the key
PeriodSeconds(params) == params.period * 60

\* calculate_orbital_position from the line `earth_radius = 6371` on: the
\* position for the merged params at time_seconds
PositionOf(params, time_seconds) ==
    IF IsNaN(params.period) THEN NaNPosition
    ELSE IF params.period = 0 THEN ZeroDivisionError
    ELSE IF IsNaN(params.altitude) \/ IsNaN(time_seconds) \/ IsNaN(params.eccentricity)
    THEN NaNPosition
    ELSE
    LET total_radius   == Fx(6371, 0) + params.altitude
        period_seconds == PeriodSeconds(params)
        mean_motion    == AngularRate(period_seconds)
        mean_anomaly   == WrappedAngle(mean_motion, time_seconds) \div 10000
        true_anomaly   == mean_anomaly
                            + (2 * params.eccentricity * Sin(mean_anomaly)) \div 10000
        x              == MulDiv(total_radius, Cos(true_anomaly), 10000)
        y              == MulDiv(total_radius, Sin(true_anomaly), 10000)
    IN  IF IsNaN(params.inclination) THEN [x |-> Scaled(x), y |-> NaN, z |-> NaN]
        ELSE LET inclination_rad == Radians(params.inclination)
                 z               == MulDiv(y, Sin(inclination_rad), 10000)
                 y_inclined      == MulDiv(y, Cos(inclination_rad), 10000)
             IN  [x |-> Scaled(x), y |-> Scaled(y_inclined), z |-> Scaled(z)]

ValueError == [raised |-> "ValueError"]

\* calculate_velocity with the speed taken from the period, as the angular
\* velocity times the radius, instead of from sqrt(mu / total_radius)
VelocityOf_speed_from_period(params, time_seconds) ==
    IF IsNaN(params.altitude) \/ IsNaN(params.period) \/ IsNaN(time_seconds)
    THEN [x |-> NaN, y |-> NaN, z |-> 0]
    ELSE IF params.period = 0 THEN ZeroDivisionError
    ELSE
    LET total_radius     == (Fx(6371, 0) + params.altitude) \div 10000
        angular_velocity == AngularRate(params.period * 60)
        orbital_speed    == MulDiv(angular_velocity, total_radius, 100000)
        angle            == WrappedAngle(angular_velocity, time_seconds) \div 10000
    IN  [x |-> (0 - orbital_speed * Sin(angle) * 5) \div 63710,
         y |-> (orbital_speed * Cos(angle) * 5) \div 63710,
         z |-> 0]

\* calculate_velocity with the inclination rotation of calculate_orbital_position
\* applied to the y component
VelocityOf_inclined(params, time_seconds) ==
    IF IsNaN(params.altitude) \/ IsNaN(params.period) \/ IsNaN(time_seconds)
       \/ IsNaN(params.inclination)
    THEN [x |-> NaN, y |-> NaN, z |-> NaN]
    ELSE IF params.period = 0 \/ Fx(6371, 0) + params.altitude <= 0 THEN ZeroDivisionError
    ELSE
    LET total_radius     == (Fx(6371, 0) + params.altitude) \div 10000
        orbital_speed    == Isqrt((398600442 \div total_radius) * 1000
                                  + ((398600442 % total_radius) * 1000) \div total_radius)
        angular_velocity == AngularRate(PeriodSeconds(params))
        angle            == WrappedAngle(angular_velocity, time_seconds) \div 10000
        inclination_rad  == Radians(params.inclination)
        y                == (orbital_speed * Cos(angle) * 5) \div 63710
    IN  [x |-> (0 - orbital_speed * Sin(angle) * 5) \div 63710,
         y |-> MulDiv(y, Cos(inclination_rad), 10000),
         z |-> MulDiv(y, Sin(inclination_rad), 10000)]

\* calculate_velocity from the line `earth_radius = 6371` on, in scene units
\* per second in units of 1/10^6.  orbital_speed is sqrt(mu / total_radius) in
\* units of 1/1000 km/s, with the radius taken to whole km.
VelocityOf(params, time_seconds) ==
    IF IsNaN(params.altitude)
    THEN IF ~IsNaN(params.period) /\ params.period = 0 THEN ZeroDivisionError
         ELSE [x |-> NaN, y |-> NaN, z |-> 0]
    ELSE IF Fx(6371, 0) + params.altitude = 0 THEN ZeroDivisionError
    ELSE IF Fx(6371, 0) + params.altitude < 0 THEN ValueError
    ELSE IF IsNaN(params.period) \/ IsNaN(time_seconds) THEN [x |-> NaN, y |-> NaN, z |-> 0]
    ELSE IF params.period = 0 THEN ZeroDivisionError
    ELSE
    LET total_radius     == (Fx(6371, 0) + params.altitude) \div 10000
        orbital_speed    == Isqrt((398600442 \div total_radius) * 1000
                                  + ((398600442 % total_radius) * 1000) \div total_radius)
        period_seconds   == PeriodSeconds(params)
        angular_velocity == AngularRate(period_seconds)
        angle            == WrappedAngle(angular_velocity, time_seconds) \div 10000
    IN  [x |-> (0 - orbital_speed * Sin(angle) * 5) \div 63710,
         y |-> (orbital_speed * Cos(angle) * 5) \div 63710,
         z |-> 0]

\* the overrides kept on the Satellite, in its custom_params, and applied to
\* every later call
merged_params_sticky(satellite, custom_params) ==
    [satellite     |-> [satellite EXCEPT !.custom_params = Merge(custom_params, @)],
     custom_params |-> custom_params,
     params        |-> Merge(Merge(custom_params, satellite.custom_params), satellite)]

\* the Satellite's fields filled into the overrides dict, which is then used
\* as params
merged_params_into_overrides(satellite, custom_params) ==
    [satellite     |-> satellite,
     custom_params |-> IF custom_params # <<>> THEN Merge(custom_params, satellite)
                       ELSE custom_params,
     params        |-> IF custom_params # <<>> THEN Merge(custom_params, satellite)
                       ELSE satellite]

\* params an alias of the Satellite's own dict (satellite.__dict__), so that the
\* update writes the overrides into the Satellite
merged_params_aliased(satellite, custom_params) ==
    [satellite     |-> IF custom_params # <<>> THEN Merge(custom_params, satellite)
                       ELSE satellite,
     custom_params |-> custom_params,
     params        |-> IF custom_params # <<>> THEN Merge(custom_params, satellite)
                       ELSE satellite]

\* the update the wrong way round: the Satellite's fields written over the
\* overrides
merged_params_record_wins(satellite, custom_params) ==
    [satellite     |-> satellite,
     custom_params |-> custom_params,
     params        |-> IF custom_params # <<>> THEN Merge(satellite, custom_params)
                       ELSE satellite]

\* params = satellite.dict(); if custom_params: params.update(custom_params)
\* The three objects after these lines: satellite.dict() is a new dict, so the
\* update touches neither the Satellite nor the overrides.  None and the empty
\* dict are both <<>>: each is falsy and skips the update.
merged_params(satellite, custom_params) ==
    [satellite     |-> satellite,
     custom_params |-> custom_params,
     params        |-> IF custom_params # <<>> THEN Merge(custom_params, satellite)
                       ELSE satellite]

calculate_orbital_position(satellite, time_seconds, custom_params) ==
    PositionOf(merged_params(satellite, custom_params).params, time_seconds)

calculate_velocity(satellite, time_seconds, custom_params) ==
    VelocityOf(merged_params(satellite, custom_params).params, time_seconds)

\* time_step = period_seconds / points, for points # 0
TimeStep(params, points) ==
    IF IsNaN(params.period) THEN NaN ELSE PeriodSeconds(params) \div points

\* the samples taken one step late: time = (i + 1) * time_step
SampleTime_one_based(i, time_step) ==
    IF IsNaN(time_step) THEN NaN ELSE (i + 1) * time_step

\* time = i * time_step
SampleTime(i, time_step) == IF IsNaN(time_step) THEN NaN ELSE i * time_step

\* the body of `for i in range(points)`: the position appended in iteration i
path_iteration(satellite, custom_params, time_step, i) ==
    calculate_orbital_position(satellite, SampleTime(i, time_step), custom_params)

\* generate_orbit_path: points = 0 raises at the division; range(points) is
\* empty for points < 0; an iteration that raises ends the call
generate_orbit_path(satellite, custom_params, points) ==
    IF points = 0 THEN ZeroDivisionError
    ELSE LET time_step   == TimeStep(merged_params(satellite, custom_params).params, points)
             path_points == [k \in 1..points |->
                                path_iteration(satellite, custom_params, time_step, k - 1)]
             raising     == {k \in 1..points : Raised(path_points[k])}
         IN  IF raising # {}
             THEN path_points[CHOOSE k \in raising : \A j \in raising : k <= j]
             ELSE [path_points |-> path_points]

----------------------------------------------------------------------------
(* server.py: the /api/satellites handlers, each as the store and the response
   it leaves when it runs from start to end with no other request in between *)

default_page_size == 100
max_page_size == 500

\* satellite.calculate_period() on a constructed Satellite
WithPeriod(satellite) == [satellite EXCEPT !.period = calculate_period(satellite.altitude)]

RECURSIVE InsertDefaults(_, _)
\* the loop of get_satellites over the default satellites, from the i-th on: each
\* is constructed, gets its period and is inserted; a construction that raises
\* ends the loop with what was inserted so far
InsertDefaults(st, i) ==
    IF i > Len(get_default_satellites) THEN [store |-> st, raised |-> FALSE]
    ELSE IF SatelliteRaises(get_default_satellites[i]) THEN [store |-> st, raised |-> TRUE]
    ELSE InsertDefaults(
            InsertOne(st, WithPeriod(Satellite(get_default_satellites[i], "unused"))), i + 1)

AnyRaises(docs) == \E i \in 1..Len(docs) : SatelliteRaises(docs[i])

\* GET /api/satellites?limit=
get_satellites_handler(st, limit) ==
    IF limit < 1 \/ limit > max_page_size
    THEN [store |-> st, resp |-> [op |-> "get_satellites", limit |-> limit, status |-> 422]]
    ELSE
    LET satellites_data == FindLimit(st, limit)
        init  == IF satellites_data = <<>> THEN InsertDefaults(st, 1)
                 ELSE [store |-> st, raised |-> FALSE]
        again == IF satellites_data = <<>> THEN FindLimit(init.store, limit)
                 ELSE satellites_data
    IN  IF init.raised \/ AnyRaises(again)
        THEN [store |-> init.store,
              resp  |-> [op |-> "get_satellites", limit |-> limit, status |-> 500,
                         detail |-> "Failed to fetch satellites"]]
        ELSE [store |-> init.store,
              resp  |-> [op |-> "get_satellites", limit |-> limit, status |-> 200,
                         satellites |-> again]]

\* create_custom_satellite that saves without looking at the validation result
create_custom_satellite_unvalidated(st, data, uuid) ==
    LET satellite == Merge([id |-> uuid, period |-> calculate_period(data.altitude)], data)
    IN  [store |-> InsertOne(st, satellite),
         resp  |-> [op |-> "create_custom_satellite", data |-> data, status |-> 200,
                    satellite |-> satellite, id |-> satellite.id]]

\* POST /api/satellites/custom; data is satellite_data.dict(), uuid the id the
\* new Satellite would get
create_custom_satellite_handler(st, data, uuid) ==
    LET validation ==
            validate_orbital_parameters(data.altitude, data.inclination, data.eccentricity)
        satellite == WithPeriod(Satellite(data, uuid))
    IN  IF ~validation.valid
        THEN [store |-> st,
              resp  |-> [op |-> "create_custom_satellite", data |-> data, status |-> 400,
                         errors |-> validation.errors]]
        ELSE IF SatelliteRaises(data)
        THEN [store |-> st,
              resp  |-> [op |-> "create_custom_satellite", data |-> data, status |-> 500]]
        ELSE [store |-> InsertOne(st, satellite),
              resp  |-> [op |-> "create_custom_satellite", data |-> data, status |-> 200,
                         satellite |-> satellite, id |-> satellite.id]]

\* update_dict built with `if v`, which also drops False, 0 and ""
UpdateDict_truthy(updates) ==
    LET truthy(f) == IF f = "active" THEN updates[f][1]
                     ELSE IF f = "color" THEN updates[f][1] # ""
                     ELSE updates[f][1] # 0
    IN  [k \in {f \in DOMAIN updates : updates[f] # None /\ truthy(f)} |-> updates[k][1]]

\* update_dict = {k: v for k, v in updates.dict().items() if v is not None}
UpdateDict(updates) ==
    [k \in {f \in DOMAIN updates : updates[f] # None} |-> updates[k][1]]

OrbitalKeys == {"altitude", "inclination", "eccentricity"}

\* update_dict.get(key, current[key])
GetOr(update_dict, key, current) ==
    IF key \in DOMAIN update_dict THEN update_dict[key] ELSE current[key]

\* the validation step of update_satellite on the document found
UpdateValidation(update_dict, current) ==
    validate_orbital_parameters(GetOr(update_dict, "altitude", current),
                                GetOr(update_dict, "inclination", current),
                                GetOr(update_dict, "eccentricity", current))

\* update_satellite that does not recalculate the period after an altitude change
update_satellite_stale_period(st, satellite_id, updates, empty_set_ok) ==
    LET update_dict == UpdateDict(updates)
        request == [op |-> "update_satellite", satellite_id |-> satellite_id,
                    updates |-> updates]
        validates == DOMAIN update_dict \cap OrbitalKeys # {}
        st1 == UpdateOne(st, satellite_id, update_dict)
    IN  IF ~Found(st, satellite_id)
        THEN [store |-> st,
              resp |-> Merge([status |-> 404, detail |-> "Satellite not found"], request)]
        ELSE IF validates /\ ~UpdateValidation(update_dict, FindOne(st, satellite_id)).valid
        THEN [store |-> st,
              resp |-> Merge([status |-> 400,
                              errors |-> UpdateValidation(update_dict,
                                                          FindOne(st, satellite_id)).errors],
                             request)]
        ELSE [store |-> st1,
              resp |-> Merge([status |-> 200, satellite |-> FindOne(st1, satellite_id)],
                             request)]

\* update_satellite that writes the update before it validates it
update_satellite_write_first(st, satellite_id, updates, empty_set_ok) ==
    LET update_dict == UpdateDict(updates)
        request == [op |-> "update_satellite", satellite_id |-> satellite_id,
                    updates |-> updates]
        validates == DOMAIN update_dict \cap OrbitalKeys # {}
        validation == UpdateValidation(update_dict, FindOne(st, satellite_id))
        st1 == UpdateOne(st, satellite_id, update_dict)
        satellite == WithPeriod(FindOne(st1, satellite_id))
        st2 == UpdateOne(st1, satellite_id, [period |-> satellite.period])
    IN  IF ~Found(st, satellite_id)
        THEN [store |-> st,
              resp |-> Merge([status |-> 404, detail |-> "Satellite not found"], request)]
        ELSE IF validates /\ ~validation.valid
        THEN [store |-> st1,
              resp |-> Merge([status |-> 400, errors |-> validation.errors], request)]
        ELSE IF "altitude" \in DOMAIN update_dict
        THEN [store |-> st2, resp |-> Merge([status |-> 200, satellite |-> satellite], request)]
        ELSE [store |-> st1,
              resp |-> Merge([status |-> 200, satellite |-> FindOne(st1, satellite_id)],
                             request)]

\* update_satellite whose first part only looks the satellite up
UpdateRejection_unvalidated(st, satellite_id, updates) ==
    IF ~Found(st, satellite_id)
    THEN Some([status |-> 404, detail |-> "Satellite not found"])
    ELSE None

\* update_satellite up to its first write: the response of the HTTPException (or
\* of the ValidationError of Satellite(**satellite_data)) it ends with, None
\* when it goes on to write
UpdateRejection(st, satellite_id, updates) ==
    LET update_dict == UpdateDict(updates)
        satellite_data == FindOne(st, satellite_id)
        validates == DOMAIN update_dict \cap OrbitalKeys # {}
        validation == UpdateValidation(update_dict, satellite_data)
    IN  IF ~Found(st, satellite_id)
        THEN Some([status |-> 404, detail |-> "Satellite not found"])
        ELSE IF validates /\ SatelliteRaises(satellite_data)
        THEN Some([status |-> 500])
        ELSE IF validates /\ ~validation.valid
        THEN Some([status |-> 400, errors |-> validation.errors])
        ELSE None

\* PUT /api/satellites/{satellite_id}.  empty_set_ok: whether the MongoDB server
\* accepts {"$set": {}} (a no-op from 5.0 on, a write error before)
update_satellite_handler(st, satellite_id, updates, empty_set_ok) ==
    LET update_dict == UpdateDict(updates)
        request == [op |-> "update_satellite", satellite_id |-> satellite_id,
                    updates |-> updates]
        rejection == UpdateRejection(st, satellite_id, updates)
        st1 == UpdateOne(st, satellite_id, update_dict)
        updated_data == FindOne(st1, satellite_id)
        satellite == WithPeriod(updated_data)
        st2 == UpdateOne(st1, satellite_id, [period |-> satellite.period])
    IN  IF rejection # None
        THEN [store |-> st, resp |-> Merge(rejection[1], request)]
        ELSE IF DOMAIN update_dict = {} /\ ~empty_set_ok
        THEN [store |-> st, resp |-> Merge([status |-> 500], request)]
        ELSE IF SatelliteRaises(updated_data)
        THEN [store |-> st1, resp |-> Merge([status |-> 500], request)]
        ELSE IF "altitude" \in DOMAIN update_dict
        THEN [store |-> st2, resp |-> Merge([status |-> 200, satellite |-> satellite], request)]
        ELSE [store |-> st1,
              resp |-> Merge([status |-> 200, satellite |-> updated_data], request)]

\* the Satellite constructed from a stored document: custom_params gets its
\* default, an empty dict
SatelliteObject(satellite_data) == Merge(satellite_data, [custom_params |-> <<>>])

\* GET /api/satellites/{satellite_id}/orbit-path?points=; an exception that
\* leaves the handler is answered with status 500
get_orbit_path_handler(st, satellite_id, points) ==
    LET request == [op |-> "get_orbit_path", satellite_id |-> satellite_id,
                    points |-> points]
    IN  IF ~Found(st, satellite_id)
        THEN [store |-> st,
              resp  |-> Merge([status |-> 404, detail |-> "Satellite not found"], request)]
        ELSE IF SatelliteRaises(FindOne(st, satellite_id))
        THEN [store |-> st, resp |-> Merge([status |-> 500], request)]
        ELSE LET satellite   == SatelliteObject(FindOne(st, satellite_id))
                 path_points == generate_orbit_path(satellite, None, points)
             IN  IF Raised(path_points)
                 THEN [store |-> st,
                       resp  |-> Merge([status |-> 500, raised |-> path_points.raised],
                                       request)]
                 ELSE [store |-> st,
                       resp  |-> Merge([status |-> 200,
                                        body |-> [satellite_id |-> satellite_id,
                                                  points |-> path_points.path_points]],
                                       request)]

\* GET /api/satellites/{satellite_id}
get_satellite_handler(st, satellite_id) ==
    LET request == [op |-> "get_satellite", satellite_id |-> satellite_id]
    IN  IF ~Found(st, satellite_id)
        THEN [store |-> st,
              resp  |-> Merge([status |-> 404, detail |-> "Satellite not found"], request)]
        ELSE IF SatelliteRaises(FindOne(st, satellite_id))
        THEN [store |-> st, resp |-> Merge([status |-> 500], request)]
        ELSE [store |-> st,
              resp  |-> Merge([status |-> 200, satellite |-> FindOne(st, satellite_id)],
                              request)]

\* start_tracking_satellite that answers without looking the satellite up
start_tracking_satellite_unverified(st, satellite_id) ==
    [store |-> st,
     resp  |-> [op |-> "start_tracking_satellite", satellite_id |-> satellite_id,
                status |-> 200, tracking |-> TRUE]]

\* start_tracking_satellite that records the tracking on the stored satellite
start_tracking_satellite_marks_tracked(st, satellite_id) ==
    LET request == [op |-> "start_tracking_satellite", satellite_id |-> satellite_id]
    IN  IF ~Found(st, satellite_id)
        THEN [store |-> st,
              resp  |-> Merge([status |-> 404, detail |-> "Satellite not found"], request)]
        ELSE [store |-> [i \in 1..Len(st) |->
                            IF st[i].id = satellite_id
                            THEN Merge([tracking |-> TRUE], st[i]) ELSE st[i]],
              resp  |-> Merge([status |-> 200, tracking |-> TRUE], request)]

\* POST /api/satellites/{satellite_id}/track
start_tracking_satellite_handler(st, satellite_id) ==
    LET request == [op |-> "start_tracking_satellite", satellite_id |-> satellite_id]
    IN  IF ~Found(st, satellite_id)
        THEN [store |-> st,
              resp  |-> Merge([status |-> 404, detail |-> "Satellite not found"], request)]
        ELSE [store |-> st, resp |-> Merge([status |-> 200, tracking |-> TRUE], request)]

RECURSIVE SortByTimestampDescending(_)
\* sort("timestamp", -1): the latest first
SortByTimestampDescending(docs) ==
    IF docs = <<>> THEN <<>>
    ELSE LET latest == CHOOSE i \in 1..Len(docs) :
                            \A j \in 1..Len(docs) :
                                \/ docs[j].timestamp < docs[i].timestamp
                                \/ (docs[j].timestamp = docs[i].timestamp /\ i <= j)
         IN  <<docs[latest]>>
                \o SortByTimestampDescending(SubSeq(docs, 1, latest - 1)
                                                \o SubSeq(docs, latest + 1, Len(docs)))

\* GET /api/satellites/{satellite_id}/positions?start=&end=&limit=
get_satellite_positions_handler(pos, satellite_id, start, end, limit) ==
    LET request == [op |-> "get_satellite_positions", satellite_id |-> satellite_id,
                    start |-> start, end |-> end, limit |-> limit]
        matches(doc) == /\ doc.satellite_id = satellite_id
                        /\ start # None => doc.timestamp >= start[1]
                        /\ end # None => doc.timestamp <= end[1]
    IN  IF limit < 1 \/ limit > max_page_size
        THEN Merge([status |-> 422], request)
        ELSE Merge([status |-> 200,
                    positions |-> FindLimit(SortByTimestampDescending(SelectSeq(pos, matches)),
                                            limit)],
                   request)

\* delete_one({"id": id}): the first match, if any, is removed
DeleteOne(docs, id) ==
    IF Found(docs, id)
    THEN SubSeq(docs, 1, IndexOf(docs, id) - 1) \o SubSeq(docs, IndexOf(docs, id) + 1, Len(docs))
    ELSE docs

\* POST /api/configurations; config_data is config_data.dict(), uuid the id the
\* new Configuration gets (saved_at, the time of the call, is left out)
save_configuration_handler(configs, config_data, uuid) ==
    LET configuration == Merge([id |-> uuid], config_data)
    IN  [configurations |-> InsertOne(configs, configuration),
         resp |-> [op |-> "save_configuration", status |-> 200,
                   configuration |-> configuration, id |-> configuration.id]]

\* DELETE /api/configurations/{config_id}
delete_configuration_handler(configs, config_id) ==
    IF ~Found(configs, config_id)
    THEN [configurations |-> configs,
          resp |-> [op |-> "delete_configuration", config_id |-> config_id,
                    status |-> 404, detail |-> "Configuration not found"]]
    ELSE [configurations |-> DeleteOne(configs, config_id),
          resp |-> [op |-> "delete_configuration", config_id |-> config_id,
                    status |-> 200, success |-> TRUE]]

\* the defaults of Preferences (id and updated_at, a fresh uuid and the time of
\* the call, are left out)
DefaultPreferences ==
    [theme |-> "dark", default_speed |-> Fx(1, 0), show_orbits |-> TRUE,
     camera_mode |-> "free"]

\* update_one({}, {"$set": fields}, upsert=True): the first document gets the
\* fields; an empty collection gets a document made of them
Upsert(docs, fields) ==
    IF docs = <<>> THEN <<fields>> ELSE [docs EXCEPT ![1] = Merge(fields, @)]

\* PUT /api/preferences (updated_at, which the handler adds to the $set, is
\* left out)
update_preferences_handler(prefs, updates) ==
    LET update_dict == UpdateDict(updates)
        prefs1      == Upsert(prefs, update_dict)
    IN  [preferences |-> prefs1,
         resp |-> [op |-> "update_preferences", updates |-> updates, status |-> 200,
                   preferences |-> Merge(prefs1[1], DefaultPreferences)]]

----------------------------------------------------------------------------
(* config.py: the Settings the dependencies and handlers read *)

\* Settings() with no JWT_* variable set but the secret: auth_enabled is true,
\* no audience, no issuer and no role is required
DefaultSettings ==
    [auth_enabled |-> TRUE, jwt_audience |-> "", jwt_issuer |-> "",
     jwt_required_roles |-> <<>>]

\* db.positions as the tracker left it: documents of SatellitePosition, the
\* timestamp in seconds
StoredPositions ==
    << [id |-> "pos-1", satellite_id |-> "iss", timestamp |-> 100,
        position |-> [x |-> Fx(5, 3202), y |-> 0, z |-> 0], altitude |-> Fx(408, 0)],
       [id |-> "pos-2", satellite_id |-> "iss", timestamp |-> 200,
        position |-> [x |-> Fx(5, 1870), y |-> Fx(0, 7403), z |-> Fx(0, 9340)],
        altitude |-> Fx(408, 0)],
       [id |-> "pos-3", satellite_id |-> "hubble", timestamp |-> 200,
        position |-> [x |-> Fx(5, 4293), y |-> 0, z |-> 0], altitude |-> Fx(547, 0)] >>

----------------------------------------------------------------------------
(* auth.py: the bearer token dependency of the mutating routes.  A token is
   what jwt.decode makes of it: whether it verifies (signature, algorithm,
   expiry) and the claims it carries.  Claim values are JSON values. *)

JStr(value) == [type |-> "str", value |-> value]
JList(items) == [type |-> "list", items |-> items]
JDict == [type |-> "dict"]

\* hash(value) raises TypeError for lists and dicts
Unhashable(value) == value.type \in {"list", "dict"}

HTTPException(status_code, detail) == [status |-> status_code, detail |-> detail]

\* an exception that is no HTTPException leaves the application as a 500
InternalServerError(exception) == [status |-> 500, raised |-> exception]

\* payload.get(key) != expected, for a claim that is a string when present
ClaimDiffers(payload, key, expected) ==
    ~(key \in DOMAIN payload /\ payload[key] = expected)

\* _validate_claims(payload): the HTTPException it raises, None when it returns
validate_claims(cfg, payload) ==
    IF cfg.jwt_audience # "" /\ ClaimDiffers(payload, "aud", cfg.jwt_audience)
    THEN Some(HTTPException(401, "Invalid token audience"))
    ELSE IF cfg.jwt_issuer # "" /\ ClaimDiffers(payload, "iss", cfg.jwt_issuer)
    THEN Some(HTTPException(401, "Invalid token issuer"))
    ELSE None

\* decode_jwt_token(token): the HTTPException it raises, None when it returns
\* the payload
decode_jwt_token(cfg, token) ==
    IF ~token.verifies THEN Some(HTTPException(401, "Invalid or expired token"))
    ELSE validate_claims(cfg, token.payload)

Anonymous == [sub |-> "anonymous"]

\* get_current_user(request, credentials): credentials is None when the request
\* has no Authorization header with the Bearer scheme and a token
get_current_user(cfg, credentials) ==
    IF ~cfg.auth_enabled THEN [user |-> Anonymous]
    ELSE IF credentials = None
    THEN [raised |-> HTTPException(401, "Missing bearer token")]
    ELSE IF decode_jwt_token(cfg, credentials[1]) # None
    THEN [raised |-> decode_jwt_token(cfg, credentials[1])[1]]
    ELSE [user |-> credentials[1].payload]

\* _require_roles(user), lines 60-67: the response of the exception it raises,
\* None when it returns the user.  set(roles) raises TypeError when an item of
\* the list is itself a list or a dict.
RolesRejection(required_roles, user) ==
    LET roles == IF "roles" \in DOMAIN user THEN user.roles ELSE JList(<<>>)
    IN  IF required_roles = <<>> THEN None
        ELSE IF roles.type # "list"
        THEN Some(HTTPException(403, "Invalid roles claim"))
        ELSE IF \E j \in 1..Len(roles.items) : Unhashable(roles.items[j])
        THEN Some(InternalServerError("TypeError"))
        ELSE IF \E i \in 1..Len(required_roles) :
                    \A j \in 1..Len(roles.items) : roles.items[j] # JStr(required_roles[i])
        THEN Some(HTTPException(403, "Insufficient permissions"))
        ELSE None

\* Depends(require_roles(settings.jwt_required_roles)): the response the request
\* ends with in the dependency, None when the handler is called
require_roles(cfg, credentials) ==
    LET current == get_current_user(cfg, credentials)
    IN  IF "raised" \in DOMAIN current THEN Some(current.raised)
        ELSE RolesRejection(cfg.jwt_required_roles, current.user)

----------------------------------------------------------------------------
(* Requests *)

LimitValues == {0, 1, default_page_size, max_page_size, max_page_size + 1}

CreateAltitudes == {NaN, Fx(149, 9000), Fx(500, 0)}
CreateInclinations == {Fx(45, 0), Fx(200, 0)}
CreateEccentricities == {Fx(0, 100), Fx(1, 0)}

\* SatelliteCreate bodies, as satellite_data.dict() gives them
CreateRequests ==
    { [name |-> "Test Satellite Alpha", type |-> "Test", altitude |-> a,
       inclination |-> i, eccentricity |-> e, color |-> c, active |-> TRUE] :
        a \in CreateAltitudes, i \in CreateInclinations, e \in CreateEccentricities,
        c \in {"#ff0000"} }

\* the point counts requested (50 is what test_orbit_path_generation asks
\* for): none is refused, points is any int
PointsValues == {0 - 1, 0, 1, 4, 50}

UuidValues == {"uuid-1"}

IdValues == {"iss", "no-such-id"}

\* SatelliteUpdate bodies
UpdateRequests ==
    [altitude     : {None, Some(NaN), Some(Fx(100, 0)), Some(Fx(600, 0))},
     inclination  : {None, Some(Fx(200, 0))},
     eccentricity : {None, Some(Fx(0, 5000))},
     active       : {None, Some(FALSE)},
     color        : {None, Some("#ff0000")}]

\* the update bodies sent to an id: every body to a stored one, the altitude
\* and active bodies to an unknown one
UpdateRequestsFor(satellite_id) ==
    IF satellite_id = "iss" THEN UpdateRequests
    ELSE {u \in UpdateRequests :
            u.inclination = None /\ u.eccentricity = None /\ u.color = None}

----------------------------------------------------------------------------
(* The service handling one request at a time *)

\* db.satellites is a collection of an external MongoDB (server.py, lines 30-34)
\* that outlives the process: the service starts over an empty collection, or
\* over one that holds the default satellites as Satellite.dict() documents with
\* their period calculated
PopulatedStore ==
    [i \in 1..Len(get_default_satellites) |->
        Merge([period |-> calculate_period(get_default_satellites[i].altitude)],
              get_default_satellites[i])]

InitialStores == {<<>>, PopulatedStore}

get_satellites(limit) ==
    LET done == get_satellites_handler(store, limit)
    IN  /\ store' = done.store
        /\ resp' = done.resp
        /\ UNCHANGED <<vcall, inflight, calcvars, othervars>>

create_custom_satellite(data, uuid) ==
    LET done == create_custom_satellite_handler(store, data, uuid)
    IN  /\ store' = done.store
        /\ resp' = done.resp
        /\ UNCHANGED <<vcall, inflight, calcvars, othervars>>

update_satellite(satellite_id, updates, empty_set_ok) ==
    LET done == update_satellite_handler(store, satellite_id, updates, empty_set_ok)
    IN  /\ store' = done.store
        /\ resp' = done.resp
        /\ UNCHANGED <<vcall, inflight, calcvars, othervars>>

get_orbit_path(satellite_id, points) ==
    LET done == get_orbit_path_handler(store, satellite_id, points)
    IN  /\ store' = done.store
        /\ resp' = done.resp
        /\ UNCHANGED <<vcall, inflight, calcvars, othervars>>

get_satellite(satellite_id) ==
    LET done == get_satellite_handler(store, satellite_id)
    IN  /\ store' = done.store
        /\ resp' = done.resp
        /\ UNCHANGED <<vcall, inflight, calcvars, othervars>>

start_tracking_satellite(satellite_id) ==
    LET done == start_tracking_satellite_handler(store, satellite_id)
    IN  /\ store' = done.store
        /\ resp' = done.resp
        /\ UNCHANGED <<vcall, inflight, calcvars, othervars>>

get_satellite_positions(satellite_id, start, end, limit) ==
    /\ resp' = get_satellite_positions_handler(positions, satellite_id, start, end, limit)
    /\ UNCHANGED <<store, vcall, inflight, calcvars, othervars>>

\* additional_backend_test.py, test_database_persistence: get, create, get, with
\* no other request in between; the response kept is what the test observed
PersistenceTestSatellite ==
    [name |-> "Persistence Test Satellite", type |-> "Test", altitude |-> Fx(500, 0),
     inclination |-> Fx(90, 0), eccentricity |-> Fx(0, 100),
     color |-> DefaultFields.color, active |-> DefaultFields.active]

persistence_test_run(st, uuid) ==
    LET response1 == get_satellites_handler(st, default_page_size)
        response2 == create_custom_satellite_handler(response1.store,
                                                     PersistenceTestSatellite, uuid)
        response3 == get_satellites_handler(response2.store, default_page_size)
        test == [op |-> "test_database_persistence"]
    IN  IF response1.resp.status # 200
        THEN [store |-> response1.store,
              resp  |-> Merge([passed |-> FALSE,
                               message |-> "Failed to get initial satellites"], test)]
        ELSE IF response2.resp.status # 200
        THEN [store |-> response2.store,
              resp  |-> Merge([passed |-> FALSE,
                               initial_count |-> Len(response1.resp.satellites),
                               message |-> "Failed to create test satellite"], test)]
        ELSE IF response3.resp.status # 200
        THEN [store |-> response3.store,
              resp  |-> Merge([passed |-> FALSE,
                               initial_count |-> Len(response1.resp.satellites),
                               message |-> "Failed to get satellites after creation"], test)]
        ELSE [store |-> response3.store,
              resp  |-> Merge([passed |-> Len(response3.resp.satellites)
                                            = Len(response1.resp.satellites) + 1,
                               initial_count |-> Len(response1.resp.satellites),
                               final_count |-> Len(response3.resp.satellites)], test)]

test_database_persistence(uuid) ==
    LET done == persistence_test_run(store, uuid)
    IN  /\ store' = done.store
        /\ resp' = done.resp
        /\ UNCHANGED <<vcall, inflight, calcvars, othervars>>

----------------------------------------------------------------------------
(* Inputs of the validator *)

AltitudeValues ==
    {NaN, Fx(0, 0) - Fx(1, 0), Fx(50, 0), Fx(149, 9000), Fx(150, 0), Fx(150, 1000),
     Fx(500, 0), Fx(35785, 0), Fx(35786, 0), Fx(35786, 1000)}
InclinationValues ==
    {NaN, Fx(0, 0) - Fx(0, 1000), Fx(0, 0), Fx(45, 0), Fx(180, 0), Fx(180, 1000), Fx(200, 0)}
EccentricityValues ==
    {NaN, Fx(0, 0) - Fx(0, 100), Fx(0, 0), Fx(0, 100), Fx(0, 9900), Fx(1, 0), Fx(1, 5000)}

NoCall == [called |-> FALSE]

\* the connections that can have a request in flight at once
NumConnections == 2
Connections == 1..NumConnections

\* the threads that can be inside a calculator call at once
NumThreads == 2
Threads == 1..NumThreads

Idle == [pc |-> "idle"]

\* POST /api/validate-orbital-params: the validator applied to the query parameters
validate_orbital_params(altitude, inclination, eccentricity) ==
    /\ vcall' = [called |-> TRUE, altitude |-> altitude, inclination |-> inclination,
                 eccentricity |-> eccentricity,
                 result |-> validate_orbital_parameters(altitude, inclination, eccentricity)]
    /\ UNCHANGED <<store, resp, inflight, calcvars, othervars>>

\* The handlers are modelled for requests that pass the role dependency
\* (require_roles) and the rate limiter.
Init ==
    /\ store \in InitialStores
    /\ resp = [op |-> "none"]
    /\ vcall = NoCall
    /\ inflight = [c \in Connections |-> Idle]
    /\ sat = SatelliteObject(PopulatedStore[1])
    /\ threads = [c \in Threads |-> Idle]
    /\ configurations = <<>>
    /\ preferences = <<>>
    /\ positions = StoredPositions
    /\ settings = DefaultSettings

InitValidate == Init /\ store = <<>>

NextValidate ==
    \E altitude \in AltitudeValues, inclination \in InclinationValues,
       eccentricity \in EccentricityValues :
        validate_orbital_params(altitude, inclination, eccentricity)

SpecValidate == InitValidate /\ [][NextValidate]_vars

Next ==
    \/ \E limit \in LimitValues : get_satellites(limit)
    \/ \E uuid \in UuidValues : test_database_persistence(uuid)
    \/ \E data \in CreateRequests, uuid \in UuidValues : create_custom_satellite(data, uuid)
    \/ \E satellite_id \in IdValues, points \in PointsValues :
        get_orbit_path(satellite_id, points)
    \/ \E satellite_id \in IdValues : get_satellite(satellite_id)
    \/ \E satellite_id \in IdValues : start_tracking_satellite(satellite_id)
    \/ \E satellite_id \in IdValues : \E updates \in UpdateRequestsFor(satellite_id) :
        \E empty_set_ok \in IF DOMAIN UpdateDict(updates) = {} THEN BOOLEAN ELSE {TRUE} :
            update_satellite(satellite_id, updates, empty_set_ok)

Spec == Init /\ [][Next]_vars

----------------------------------------------------------------------------
(* The read and utility routes alone, one request at a time, over a collection
   that is empty, holds the default satellites, or holds them after an update *)

EmptyUpdate ==
    [altitude |-> None, inclination |-> None, eccentricity |-> None, active |-> None,
     color |-> None]

UpdatedStore ==
    update_satellite_handler(PopulatedStore, "iss",
                             [EmptyUpdate EXCEPT !.altitude = Some(Fx(600, 0)),
                                                 !.active = Some(FALSE)],
                             TRUE).store

ReadStores == InitialStores \cup {UpdatedStore}

ReadIds == {"iss", "hubble", "no-such-id"}
ReadLimits == {0, 1, default_page_size}
ReadInstants == {None, Some(150)}
ReadAltitudes == {Fx(100, 0), Fx(500, 0)}

InitRead ==
    /\ store \in ReadStores
    /\ resp = [op |-> "none"]
    /\ vcall = NoCall
    /\ inflight = [c \in Connections |-> Idle]
    /\ sat = SatelliteObject(PopulatedStore[1])
    /\ threads = [c \in Threads |-> Idle]
    /\ configurations = <<>>
    /\ preferences = <<>>
    /\ positions = StoredPositions
    /\ settings = DefaultSettings

NextRead ==
    \/ \E limit \in ReadLimits : get_satellites(limit)
    \/ \E satellite_id \in ReadIds : get_satellite(satellite_id)
    \/ \E satellite_id \in ReadIds, points \in PointsValues :
        get_orbit_path(satellite_id, points)
    \/ \E altitude \in ReadAltitudes :
        validate_orbital_params(altitude, Fx(45, 0), Fx(0, 100))
    \/ \E satellite_id \in ReadIds : start_tracking_satellite(satellite_id)
    \/ \E satellite_id \in ReadIds, start \in ReadInstants, end \in ReadInstants,
          limit \in ReadLimits :
        get_satellite_positions(satellite_id, start, end, limit)

SpecRead == InitRead /\ [][NextRead]_vars

----------------------------------------------------------------------------
(* The mutating routes with their dependency, Depends(require_roles(...)), one
   request at a time: the dependency runs first, and the handler only when it
   raises nothing *)

\* the settings the service is started with
AuthSettings ==
    {[auth_enabled |-> TRUE, jwt_audience |-> "", jwt_issuer |-> "orbit-auth",
      jwt_required_roles |-> <<"admin", "operator">>],
     DefaultSettings,
     [auth_enabled |-> FALSE, jwt_audience |-> "", jwt_issuer |-> "",
      jwt_required_roles |-> <<"admin">>],
     [auth_enabled |-> FALSE, jwt_audience |-> "", jwt_issuer |-> "",
      jwt_required_roles |-> <<>>]}

\* the roles claims of the tokens: both roles, one of them, a string instead
\* of a list, and the list of roles nested in a list
RolesClaims ==
    {JList(<<JStr("admin"), JStr("operator")>>),
     JList(<<JStr("admin")>>),
     JStr("admin"),
     JList(<<JList(<<JStr("admin"), JStr("operator")>>)>>)}

TokenPayloads ==
    {[sub |-> "alice", iss |-> "orbit-auth", roles |-> r] : r \in RolesClaims}
    \cup {[sub |-> "alice", iss |-> "orbit-auth"],
          [sub |-> "alice", iss |-> "other",
           roles |-> JList(<<JStr("admin"), JStr("operator")>>)]}

\* what HTTPBearer hands the dependency: None, or a token
CredentialsValues ==
    {None}
    \cup {Some([verifies |-> TRUE, payload |-> p]) : p \in TokenPayloads}
    \cup {Some([verifies |-> FALSE,
                payload |-> [sub |-> "alice", iss |-> "orbit-auth",
                             roles |-> JList(<<JStr("admin"), JStr("operator")>>)]])}

\* the response of a request: what the dependency raised, else what the
\* handler answered
Answer(op, credentials, rejection, handled) ==
    Merge([credentials |-> credentials],
          IF rejection # None THEN Merge([op |-> op], rejection[1]) ELSE handled)

\* the configurations kept at most (more are not saved here)
MaxConfigurations == 2

ConfigUuids == {"cfg-1", "cfg-2", "cfg-3"}

ConfigurationRequests ==
    {[name |-> "ISS close-up", description |-> "", satellite_params |-> [altitude |-> Fx(408, 0)],
      time_speed |-> Fx(1, 0), selected_satellite_id |-> "iss"]}

PreferencesRequests ==
    {[theme |-> Some("light"), default_speed |-> None, show_orbits |-> Some(FALSE),
      camera_mode |-> None]}

AuthUpdateRequests ==
    {[altitude |-> None, inclination |-> None, eccentricity |-> None,
      active |-> Some(FALSE), color |-> None]}

AuthCreateRequests ==
    {PersistenceTestSatellite, [PersistenceTestSatellite EXCEPT !.altitude = Fx(100, 0)]}

post_satellites_custom(credentials, data, uuid) ==
    LET rejection == require_roles(settings, credentials)
        done      == create_custom_satellite_handler(store, data, uuid)
    IN  /\ store' = IF rejection # None THEN store ELSE done.store
        /\ resp' = Answer("create_custom_satellite", credentials, rejection, done.resp)
        /\ UNCHANGED <<vcall, inflight, calcvars, othervars>>

put_satellite(credentials, satellite_id, updates) ==
    LET rejection == require_roles(settings, credentials)
        done      == update_satellite_handler(store, satellite_id, updates, TRUE)
    IN  /\ store' = IF rejection # None THEN store ELSE done.store
        /\ resp' = Answer("update_satellite", credentials, rejection, done.resp)
        /\ UNCHANGED <<vcall, inflight, calcvars, othervars>>

post_configurations(credentials, config_data, uuid) ==
    LET rejection == require_roles(settings, credentials)
        done      == save_configuration_handler(configurations, config_data, uuid)
    IN  /\ Len(configurations) < MaxConfigurations
        /\ ~Found(configurations, uuid)
        /\ configurations' = IF rejection # None THEN configurations
                              ELSE done.configurations
        /\ resp' = Answer("save_configuration", credentials, rejection, done.resp)
        /\ UNCHANGED <<store, vcall, inflight, calcvars, preferences, positions, settings>>

delete_configuration(credentials, config_id) ==
    LET rejection == require_roles(settings, credentials)
        done      == delete_configuration_handler(configurations, config_id)
    IN  /\ configurations' = IF rejection # None THEN configurations
                              ELSE done.configurations
        /\ resp' = Answer("delete_configuration", credentials, rejection, done.resp)
        /\ UNCHANGED <<store, vcall, inflight, calcvars, preferences, positions, settings>>

put_preferences(credentials, updates) ==
    LET rejection == require_roles(settings, credentials)
        done      == update_preferences_handler(preferences, updates)
    IN  /\ preferences' = IF rejection # None THEN preferences ELSE done.preferences
        /\ resp' = Answer("update_preferences", credentials, rejection, done.resp)
        /\ UNCHANGED <<store, vcall, inflight, calcvars, configurations, positions, settings>>

InitAuth ==
    /\ store = PopulatedStore
    /\ resp = [op |-> "none"]
    /\ vcall = NoCall
    /\ inflight = [c \in Connections |-> Idle]
    /\ sat = SatelliteObject(PopulatedStore[1])
    /\ threads = [c \in Threads |-> Idle]
    /\ configurations = <<>>
    /\ preferences = <<>>
    /\ positions = StoredPositions
    /\ settings \in AuthSettings

NextAuth ==
    \E credentials \in CredentialsValues :
        \/ \E data \in AuthCreateRequests, uuid \in UuidValues :
            post_satellites_custom(credentials, data, uuid)
        \/ \E satellite_id \in IdValues, updates \in AuthUpdateRequests :
            put_satellite(credentials, satellite_id, updates)
        \/ \E config_data \in ConfigurationRequests, uuid \in ConfigUuids :
            post_configurations(credentials, config_data, uuid)
        \/ \E config_id \in {"cfg-1", "no-such-configuration"} :
            delete_configuration(credentials, config_id)
        \/ \E updates \in PreferencesRequests : put_preferences(credentials, updates)

SpecAuth == InitAuth /\ [][NextAuth]_vars

----------------------------------------------------------------------------
(* The service handling requests concurrently: the handlers are coroutines on
   one event loop, interleaved at their awaits, so each database call of a
   request, with the synchronous code that follows it, is a step *)

Completed(op, status) == [pc |-> "done", op |-> op, status |-> status]
Free(c) == inflight[c].pc \in {"idle", "done"}

ConcAltitudes == {Fx(100, 0), Fx(500, 0), Fx(600, 0), NaN}

\* the ids uuid4 hands out
ConcUuids == {"uuid-1", "uuid-2"}

\* the update bodies of the concurrent requests: one field each, or none
ConcUpdateRequests ==
    {[altitude |-> a, inclination |-> None, eccentricity |-> None, active |-> None,
      color |-> None] : a \in {Some(x) : x \in ConcAltitudes}}
    \cup {[altitude |-> None, inclination |-> None, eccentricity |-> Some(Fx(0, 5000)),
           active |-> None, color |-> None],
          EmptyUpdate}

\* get_satellites, a step for each database call with the synchronous code that
\* follows it: the find, which on an empty collection goes on to construct the
\* first default satellite; each insert_one, which goes on to construct the
\* next one; the find after the loop.  A construction that raises ends the
\* request with 500.  With Satellite as declared the first construction raises
\* and the request ends in its first step.
conc_get_satellites(c, limit) ==
    /\ IF Free(c)
       THEN /\ inflight' = [inflight EXCEPT ![c] =
                    IF FindLimit(store, limit) # <<>>
                    THEN Completed("get_satellites",
                                   IF AnyRaises(FindLimit(store, limit)) THEN 500 ELSE 200)
                    ELSE IF SatelliteRaises(get_default_satellites[1])
                    THEN Completed("get_satellites", 500)
                    ELSE [pc |-> "insert_default", i |-> 1, limit |-> limit]]
            /\ UNCHANGED store
       ELSE IF inflight[c].pc = "insert_default"
       THEN /\ store' = InsertOne(store,
                            WithPeriod(Satellite(get_default_satellites[inflight[c].i],
                                                 "unused")))
            /\ inflight' = [inflight EXCEPT ![c] =
                    IF @.i = Len(get_default_satellites)
                    THEN [pc |-> "find_again", limit |-> @.limit]
                    ELSE IF SatelliteRaises(get_default_satellites[@.i + 1])
                    THEN Completed("get_satellites", 500)
                    ELSE [@ EXCEPT !.i = @ + 1]]
       ELSE /\ inflight[c].pc = "find_again"
            /\ inflight' = [inflight EXCEPT ![c] =
                    Completed("get_satellites",
                              IF AnyRaises(FindLimit(store, @.limit)) THEN 500 ELSE 200)]
            /\ UNCHANGED store
    /\ UNCHANGED <<resp, vcall, calcvars, othervars>>

\* create_custom_satellite answers 400 or fails to construct the Satellite
\* before any database call
conc_create_custom_satellite(c, data, uuid) ==
    /\ Free(c)
    /\ LET done == create_custom_satellite_handler(store, data, uuid)
       IN  /\ store' = done.store
           /\ inflight' = [inflight EXCEPT ![c] =
                               Completed("create_custom_satellite", done.resp.status)]
    /\ UNCHANGED <<resp, vcall, calcvars, othervars>>

\* update_satellite: find_one, then the validation
update_find(c, satellite_id, updates) ==
    /\ Free(c)
    /\ LET rejection == UpdateRejection(store, satellite_id, updates)
       IN  inflight' = [inflight EXCEPT ![c] =
                IF rejection # None THEN Completed("update_satellite", rejection[1].status)
                ELSE [pc |-> "set", satellite_id |-> satellite_id, updates |-> updates]]
    /\ UNCHANGED <<store, resp, vcall, calcvars, othervars>>

\* update_satellite: update_one({"$set": update_dict})
update_set(c, empty_set_ok) ==
    /\ inflight[c].pc = "set"
    \* only an empty $set can be refused
    /\ DOMAIN UpdateDict(inflight[c].updates) # {} => empty_set_ok
    /\ LET update_dict == UpdateDict(inflight[c].updates)
       IN  IF DOMAIN update_dict = {} /\ ~empty_set_ok
           THEN /\ inflight' = [inflight EXCEPT ![c] = Completed("update_satellite", 500)]
                /\ UNCHANGED store
           ELSE /\ store' = UpdateOne(store, inflight[c].satellite_id, update_dict)
                /\ inflight' = [inflight EXCEPT ![c].pc = "find_updated"]
    /\ UNCHANGED <<resp, vcall, calcvars, othervars>>

\* update_satellite: the find_one after the write; with an altitude in the
\* update the period is calculated from the document read here
update_find_updated(c) ==
    /\ inflight[c].pc = "find_updated"
    /\ LET updated_data == FindOne(store, inflight[c].satellite_id)
       IN  inflight' = [inflight EXCEPT ![c] =
                IF SatelliteRaises(updated_data) THEN Completed("update_satellite", 500)
                ELSE IF "altitude" \in DOMAIN UpdateDict(inflight[c].updates)
                THEN [pc |-> "set_period", satellite_id |-> inflight[c].satellite_id,
                      updates |-> inflight[c].updates,
                      satellite |-> WithPeriod(updated_data)]
                ELSE Completed("update_satellite", 200)]
    /\ UNCHANGED <<store, resp, vcall, calcvars, othervars>>

\* update_satellite: update_one({"$set": {"period": satellite.period}})
update_set_period(c) ==
    /\ inflight[c].pc = "set_period"
    /\ store' = UpdateOne(store, inflight[c].satellite_id,
                          [period |-> inflight[c].satellite.period])
    /\ inflight' = [inflight EXCEPT ![c] = Completed("update_satellite", 200)]
    /\ UNCHANGED <<resp, vcall, calcvars, othervars>>

NextConc ==
    \E c \in Connections :
        \/ conc_get_satellites(c, default_page_size)
        \/ \E uuid \in ConcUuids :
            ~Found(store, uuid) /\ conc_create_custom_satellite(c, PersistenceTestSatellite, uuid)
        \/ \E updates \in ConcUpdateRequests : update_find(c, "iss", updates)
        \/ update_find(c, "no-such-id", EmptyUpdate)
        \/ \E empty_set_ok \in BOOLEAN : update_set(c, empty_set_ok)
        \/ update_find_updated(c)
        \/ update_set_period(c)

SpecConc == Init /\ [][NextConc]_vars

----------------------------------------------------------------------------
(* The calculator called from several threads on one Satellite object.  Each
   caller owns the overrides dict it passes.  A call is split where it reads
   the objects it was handed: the first lines of a function (the merged params)
   are one step, each iteration of the path loop, with the nested
   calculate_orbital_position, is one step, and the return is one step. *)

ThreadFree(c) == threads[c].pc \in {"idle", "done"}

\* the Satellite objects: the default ISS and GPS-1, and the ISS after an
\* update to a NaN altitude, which update_satellite accepts and stores with a
\* NaN period
CalcSatellites ==
    {SatelliteObject(PopulatedStore[1]),
     SatelliteObject(PopulatedStore[3]),
     SatelliteObject([PopulatedStore[1] EXCEPT !.altitude = NaN, !.period = NaN])}

CalcOverrides == {None, [altitude |-> Fx(600, 0)]}

BaseTimes == {Fx(1, 0), Fx(1000, 5000)}

\* the times of the position calls: the base times, and each one period later
CalcTimes ==
    BaseTimes \cup (IF IsNaN(sat.period) THEN {}
                    ELSE {time_seconds + sat.period * 60 : time_seconds \in BaseTimes})

CalcPoints == {0 - 1, 0, 3}

ValidatorCalls ==
    {[altitude |-> Fx(500, 0), inclination |-> Fx(45, 0), eccentricity |-> Fx(0, 100)],
     [altitude |-> NaN, inclination |-> Fx(200, 0), eccentricity |-> Fx(0, 100)]}

\* a call that has run its first lines: what it was passed, the Satellite as it
\* was at the call, and its locals
Entered(op, args, custom_params, merged) ==
    [pc |-> "entered", op |-> op, args |-> args, satellite |-> sat,
     passed |-> custom_params, custom_params |-> merged.custom_params,
     params |-> merged.params]

\* a call that has returned or raised: its locals are gone
Returned(frame, result) ==
    [pc |-> "done", op |-> frame.op, args |-> frame.args, satellite |-> frame.satellite,
     passed |-> frame.passed, custom_params |-> frame.custom_params, result |-> result]

\* calculate_orbital_position(sat, time_seconds, custom_params), lines 11-13
position_enter(c, time_seconds, custom_params) ==
    /\ ThreadFree(c)
    /\ LET merged == merged_params(sat, custom_params)
       IN  /\ sat' = merged.satellite
           /\ threads' = [threads EXCEPT ![c] =
                            Entered("calculate_orbital_position",
                                    [time_seconds |-> time_seconds], custom_params, merged)]
    /\ UNCHANGED apivars

\* calculate_orbital_position, lines 15-46
position_return(c) ==
    /\ threads[c].pc = "entered"
    /\ threads[c].op = "calculate_orbital_position"
    /\ threads' = [threads EXCEPT ![c] =
                     Returned(@, PositionOf(@.params, @.args.time_seconds))]
    /\ UNCHANGED <<sat, apivars>>

\* calculate_velocity(sat, time_seconds, custom_params), lines 51-53
velocity_enter(c, time_seconds, custom_params) ==
    /\ ThreadFree(c)
    /\ LET merged == merged_params(sat, custom_params)
       IN  /\ sat' = merged.satellite
           /\ threads' = [threads EXCEPT ![c] =
                            Entered("calculate_velocity",
                                    [time_seconds |-> time_seconds], custom_params, merged)]
    /\ UNCHANGED apivars

\* calculate_velocity, lines 55-75
velocity_return(c) ==
    /\ threads[c].pc = "entered"
    /\ threads[c].op = "calculate_velocity"
    /\ threads' = [threads EXCEPT ![c] =
                     Returned(@, VelocityOf(@.params, @.args.time_seconds))]
    /\ UNCHANGED <<sat, apivars>>

\* generate_orbit_path(sat, custom_params, points), lines 80-86; times lists
\* the values `time` takes in the loop
path_enter(c, custom_params, points) ==
    /\ ThreadFree(c)
    /\ LET merged  == merged_params(sat, custom_params)
           entered == Entered("generate_orbit_path", [points |-> points],
                              custom_params, merged)
       IN  /\ sat' = merged.satellite
           /\ threads' = [threads EXCEPT ![c] =
                            IF points = 0 THEN Returned(entered, ZeroDivisionError)
                            ELSE Merge([pc |-> "loop", i |-> 0, path_points |-> <<>>,
                                        times |-> <<>>,
                                        time_step |-> TimeStep(merged.params, points)],
                                       entered)]
    /\ UNCHANGED apivars

\* generate_orbit_path, lines 88-91: one iteration of the loop; the nested call
\* reads the Satellite and the overrides again
path_step(c) ==
    /\ threads[c].pc = "loop"
    /\ threads[c].i < threads[c].args.points
    /\ LET frame    == threads[c]
           time     == SampleTime(frame.i, frame.time_step)
           merged   == merged_params(sat, frame.custom_params)
           position == PositionOf(merged.params, time)
       IN  /\ sat' = merged.satellite
           /\ threads' = [threads EXCEPT ![c] =
                            IF Raised(position)
                            THEN Returned([frame EXCEPT !.custom_params =
                                                            merged.custom_params],
                                          position)
                            ELSE [frame EXCEPT !.custom_params = merged.custom_params,
                                               !.i = @ + 1,
                                               !.times = Append(@, time),
                                               !.path_points = Append(@, position)]]
    /\ UNCHANGED apivars

\* generate_orbit_path, line 93
path_return(c) ==
    /\ threads[c].pc = "loop"
    /\ threads[c].i >= threads[c].args.points
    /\ threads' = [threads EXCEPT ![c] =
                     Merge([times |-> @.times],
                           Returned(@, [path_points |-> @.path_points]))]
    /\ UNCHANGED <<sat, apivars>>

\* validate_orbital_parameters(altitude, inclination, eccentricity): it is
\* handed no object, only numbers
validate_call(c, args) ==
    /\ ThreadFree(c)
    /\ threads' = [threads EXCEPT ![c] =
                     [pc |-> "done", op |-> "validate_orbital_parameters", args |-> args,
                      satellite |-> sat, passed |-> None, custom_params |-> None,
                      result |-> validate_orbital_parameters(args.altitude,
                                                             args.inclination,
                                                             args.eccentricity)]]
    /\ UNCHANGED <<sat, apivars>>

InitCalc ==
    /\ store = PopulatedStore
    /\ resp = [op |-> "none"]
    /\ vcall = NoCall
    /\ inflight = [c \in Connections |-> Idle]
    /\ sat \in CalcSatellites
    /\ threads = [c \in Threads |-> Idle]
    /\ configurations = <<>>
    /\ preferences = <<>>
    /\ positions = StoredPositions
    /\ settings = DefaultSettings

NextCalc ==
    \E c \in Threads :
        \/ \E time_seconds \in CalcTimes, custom_params \in CalcOverrides :
            position_enter(c, time_seconds, custom_params)
        \/ position_return(c)
        \/ \E custom_params \in CalcOverrides :
            velocity_enter(c, Fx(1000, 5000), custom_params)
        \/ velocity_return(c)
        \/ \E custom_params \in CalcOverrides, points \in CalcPoints :
            path_enter(c, custom_params, points)
        \/ path_step(c)
        \/ path_return(c)
        \/ \E args \in ValidatorCalls : validate_call(c, args)

SpecCalc == InitCalc /\ [][NextCalc]_vars

----------------------------------------------------------------------------
(* The calculator and Satellite.calculate_period called by one caller at a
   time, over a wider range of elements, overrides and times *)

OrbitAltitudes == {Fx(150, 0), Fx(408, 0), Fx(20200, 0), Fx(35786, 0)}
OrbitInclinations == {Fx(51, 6000), Fx(98, 2000)}
OrbitEccentricities == {Fx(0, 2), Fx(0, 200)}

\* a period that is not the one of the altitude: the object was constructed
\* with it and calculate_period() has not run since
StalePeriod == Fx(100, 0)

\* Satellite objects with valid elements, the period calculated or not
OrbitSatellites ==
    {SatelliteObject([PopulatedStore[1] EXCEPT
                        !.altitude = a, !.inclination = i, !.eccentricity = e,
                        !.period = IF stale THEN StalePeriod ELSE calculate_period(a)]) :
        a \in OrbitAltitudes, i \in OrbitInclinations, e \in OrbitEccentricities,
        stale \in BOOLEAN}

OrbitOverrides ==
    {None,
     [altitude |-> Fx(600, 0)],
     [period |-> Fx(96, 5389)],
     [altitude |-> Fx(600, 0), period |-> Fx(96, 5389)],
     [inclination |-> Fx(28, 5000)],
     [inclination |-> Fx(0, 0), eccentricity |-> Fx(0, 5000)]}

OrbitTimes == {Fx(0, 0), Fx(1000, 5000), Fx(5000, 0)}

OrbitPoints == {1, 3}

\* satellite.calculate_period(): it sets the period of the object and returns it
calculate_period_call(c) ==
    /\ ThreadFree(c)
    /\ sat' = WithPeriod(sat)
    /\ threads' = [threads EXCEPT ![c] =
                     [pc |-> "done", op |-> "calculate_period",
                      args |-> [altitude |-> sat.altitude], satellite |-> sat,
                      passed |-> None, custom_params |-> None,
                      result |-> calculate_period(sat.altitude)]]
    /\ UNCHANGED apivars

InitOrbit ==
    /\ store = PopulatedStore
    /\ resp = [op |-> "none"]
    /\ vcall = NoCall
    /\ inflight = [c \in Connections |-> Idle]
    /\ sat \in OrbitSatellites
    /\ threads = [c \in Threads |-> Idle]
    /\ configurations = <<>>
    /\ preferences = <<>>
    /\ positions = StoredPositions
    /\ settings = DefaultSettings

NextOrbit ==
    \/ \E time_seconds \in OrbitTimes, custom_params \in OrbitOverrides :
        position_enter(1, time_seconds, custom_params)
    \/ position_return(1)
    \/ \E time_seconds \in OrbitTimes, custom_params \in OrbitOverrides :
        velocity_enter(1, time_seconds, custom_params)
    \/ velocity_return(1)
    \/ \E custom_params \in OrbitOverrides, points \in OrbitPoints :
        path_enter(1, custom_params, points)
    \/ path_step(1)
    \/ path_return(1)
    \/ calculate_period_call(1)

SpecOrbit == InitOrbit /\ [][NextOrbit]_vars

----------------------------------------------------------------------------
(* Properties of the validator, checked under SpecValidate *)

\* the four rules as the specification words them
AltitudeInRange(altitude) ==
    FLe(Fx(150, 0), altitude) /\ FLe(altitude, Fx(35786, 0))
InclinationInRange(inclination) ==
    FLe(Fx(0, 0), inclination) /\ FLe(inclination, Fx(180, 0))
EccentricityInRange(eccentricity) ==
    FLe(Fx(0, 0), eccentricity) /\ FLt(eccentricity, Fx(1, 0))

\* C1: validate_orbital_parameters returns valid = true if and only if
\* 150 <= altitude, altitude <= 35786, 0 <= inclination <= 180 and
\* 0 <= eccentricity < 1 all hold.
C1_ValidIffAllRules ==
    vcall.called =>
        (vcall.result.valid <=>
            /\ AltitudeInRange(vcall.altitude)
            /\ InclinationInRange(vcall.inclination)
            /\ EccentricityInRange(vcall.eccentricity))

\* the parameter a message is about is its first word
ParameterOf(message) == message[1]

OutOfRangeParameters(altitude, inclination, eccentricity) ==
    (IF AltitudeInRange(altitude) THEN <<>> ELSE <<"Altitude">>)
    \o (IF InclinationInRange(inclination) THEN <<>> ELSE <<"Inclination">>)
    \o (IF EccentricityInRange(eccentricity) THEN <<>> ELSE <<"Eccentricity">>)

\* C2: the errors list holds exactly one message for each parameter that is out
\* of range, in the order altitude, inclination, eccentricity.
C2_OneErrorPerViolation ==
    vcall.called =>
        [i \in 1..Len(vcall.result.errors) |-> ParameterOf(vcall.result.errors[i])]
            = OutOfRangeParameters(vcall.altitude, vcall.inclination, vcall.eccentricity)

HasMessageMentioning(errors, text) ==
    \E i \in 1..Len(errors) : Mentions(errors[i], text)

\* C3: an altitude below 150 gives valid = false and an error that includes
\* "150km"; for an altitude >= 150 no error mentions "150km".
C3_LowAltitudeMessage ==
    vcall.called =>
        /\ FLt(vcall.altitude, Fx(150, 0)) =>
                /\ ~vcall.result.valid
                /\ HasMessageMentioning(vcall.result.errors, "150km")
        /\ FLe(Fx(150, 0), vcall.altitude) =>
                ~HasMessageMentioning(vcall.result.errors, "150km")

C3_Witness ==
    /\ vcall.called
    /\ vcall.altitude = Fx(149, 9000)
    /\ ~vcall.result.valid
    /\ HasMessageMentioning(vcall.result.errors, "150km")

----------------------------------------------------------------------------
(* Properties of the handlers, one request at a time, checked under Spec *)

IsCreate(r) == r.op = "create_custom_satellite"
IsUpdate(r) == r.op = "update_satellite"

CreateValidation(data) ==
    validate_orbital_parameters(data.altitude, data.inclination, data.eccentricity)

\* C4: a create whose altitude, inclination or eccentricity fails validation is
\* rejected with status 400 and the errors list, and the store is unchanged.
C4_InvalidCreateRejected ==
    [][(IsCreate(resp') /\ ~CreateValidation(resp'.data).valid) =>
            /\ resp'.status = 400
            /\ resp'.errors = CreateValidation(resp'.data).errors
            /\ store' = store]_vars

C4_Witness ==
    /\ IsCreate(resp)
    /\ resp.data.altitude = Fx(149, 9000)
    /\ resp.status = 400
    /\ HasMessageMentioning(resp.errors, "150km")
    /\ store = PopulatedStore

\* C5: a create whose orbital parameters pass validation succeeds with status
\* 200 and returns the new satellite and its id, the period calculated and > 0.
C5_ValidCreateSucceeds ==
    (IsCreate(resp) /\ CreateValidation(resp.data).valid) =>
        /\ resp.status = 200
        /\ resp.id = resp.satellite.id
        /\ FGt(resp.satellite.period, Fx(0, 0))

C7_PeriodFollowsAltitude ==
    [][(IsUpdate(resp') /\ resp'.status = 200) =>
            LET before == FindOne(store, resp'.satellite_id)
                after  == FindOne(store', resp'.satellite_id)
            IN  IF resp'.updates.altitude # None
                THEN /\ after.altitude = resp'.updates.altitude[1]
                     /\ after.period = calculate_period(after.altitude)
                     /\ resp'.satellite.period = after.period
                ELSE after.period = before.period]_vars

C7_Witness ==
    /\ IsUpdate(resp)
    /\ resp.status = 200
    /\ resp.updates.altitude = Some(Fx(600, 0))
    /\ Found(store, "iss")
    /\ FindOne(store, "iss").altitude = Fx(600, 0)
    /\ FindOne(store, "iss").period # PopulatedStore[1].period
    /\ resp.satellite.period = FindOne(store, "iss").period

\* the validation update_satellite owes a request: the supplied values over the
\* stored ones
MergedValidation(st, r) ==
    UpdateValidation(UpdateDict(r.updates), FindOne(st, r.satellite_id))

SuppliesOrbital(r) == DOMAIN UpdateDict(r.updates) \cap OrbitalKeys # {}

\* C9: an update that supplies altitude, inclination or eccentricity is
\* validated on the supplied values merged over the stored ones; when that fails
\* it is rejected with status 400 and the stored record is unchanged.
C9_InvalidUpdateRejected ==
    [][(IsUpdate(resp') /\ Found(store, resp'.satellite_id)) =>
            /\ (SuppliesOrbital(resp') /\ ~MergedValidation(store, resp').valid) =>
                    /\ resp'.status = 400
                    /\ resp'.errors = MergedValidation(store, resp').errors
                    /\ store' = store
            /\ resp'.status = 400 =>
                    (SuppliesOrbital(resp') /\ ~MergedValidation(store, resp').valid)]_vars

C9_Witness ==
    /\ IsUpdate(resp)
    /\ resp.status = 400
    /\ resp.updates.altitude = Some(Fx(600, 0))
    /\ resp.updates.inclination = Some(Fx(200, 0))
    /\ resp.updates.active = Some(FALSE)
    /\ resp.updates.color = Some("#ff0000")
    /\ Found(store, "iss")
    /\ FindOne(store, "iss") = PopulatedStore[1]

\* the fields a SatelliteUpdate body supplies
Supplied(updates) == {k \in DOMAIN updates : updates[k] # None}

\* C23: a successful update sets each supplied field of the record to the
\* supplied value and leaves every other field as it was, except the period
\* when altitude is supplied; it adds and removes no field, touches no other
\* record, and returns a satellite that carries the supplied values.
C23_UpdateSetsSuppliedFields ==
    [][(IsUpdate(resp') /\ resp'.status = 200) =>
            LET before   == FindOne(store, resp'.satellite_id)
                after    == FindOne(store', resp'.satellite_id)
                supplied == Supplied(resp'.updates)
            IN  /\ Len(store') = Len(store)
                /\ \A i \in 1..Len(store) :
                        i # IndexOf(store, resp'.satellite_id) => store'[i] = store[i]
                /\ DOMAIN after = DOMAIN before
                /\ \A k \in DOMAIN before :
                        IF k \in supplied THEN after[k] = resp'.updates[k][1]
                        ELSE IF k = "period" /\ "altitude" \in supplied THEN TRUE
                        ELSE after[k] = before[k]
                /\ \A k \in supplied : resp'.satellite[k] = resp'.updates[k][1]]_vars

C23_Witness ==
    /\ IsUpdate(resp)
    /\ resp.status = 200
    /\ Supplied(resp.updates) = {"altitude", "active"}
    /\ resp.updates.altitude = Some(Fx(600, 0))
    /\ resp.updates.active = Some(FALSE)
    /\ FindOne(store, "iss").altitude = Fx(600, 0)
    /\ FindOne(store, "iss").active = FALSE
    /\ FindOne(store, "iss").inclination = PopulatedStore[1].inclination
    /\ FindOne(store, "iss").color = PopulatedStore[1].color
    /\ resp.satellite.altitude = Fx(600, 0)
    /\ resp.satellite.active = FALSE

ByIdOps == {"get_satellite", "update_satellite", "start_tracking_satellite", "get_orbit_path"}

\* C28: a request to get_satellite, update_satellite, start_tracking_satellite
\* or get_orbit_path for an id no stored record has is answered 404 "Satellite
\* not found" and leaves the store as it was, with no record of that id.
C28_UnknownIdNotFound ==
    [][(resp'.op \in ByIdOps /\ ~Found(store, resp'.satellite_id)) =>
            /\ resp'.status = 404
            /\ resp'.detail = "Satellite not found"
            /\ store' = store
            /\ ~Found(store', resp'.satellite_id)]_vars

C28_Witness ==
    /\ resp.op = "start_tracking_satellite"
    /\ resp.satellite_id = "no-such-id"
    /\ resp.status = 404
    /\ store = PopulatedStore

\* C12: get_satellites on an empty store answers 200, leaves the store holding
\* the default satellites, each with a period > 0, and returns them.
C12_EmptyStoreInitialised ==
    [][(store = <<>> /\ resp'.op = "get_satellites" /\ resp'.status # 422) =>
            /\ resp'.status = 200
            /\ Len(store') = Len(get_default_satellites)
            /\ \A i \in 1..Len(store') :
                    /\ store'[i].id = get_default_satellites[i].id
                    /\ FGt(store'[i].period, Fx(0, 0))
            /\ resp'.satellites # <<>>
            /\ resp'.satellites = FindLimit(store', resp'.limit)]_vars

----------------------------------------------------------------------------
(* Properties under concurrent requests, checked under SpecConc *)

AllCompleted == \A c \in Connections : Free(c)

\* C8: once all concurrent update_satellite requests have completed, the stored
\* period of every satellite equals the period computed from its stored altitude.
C8_PeriodNeverStale ==
    AllCompleted =>
        \A i \in 1..Len(store) : store[i].period = calculate_period(store[i].altitude)

\* C10: every satellite record in the store has an altitude, inclination and
\* eccentricity that validate_orbital_parameters accepts.
C10_StoreHoldsValidOrbits ==
    \A i \in 1..Len(store) :
        validate_orbital_parameters(store[i].altitude, store[i].inclination,
                                    store[i].eccentricity).valid

C10_Witness ==
    /\ Found(store, "iss")
    /\ FindOne(store, "iss").altitude = Fx(600, 0)
    /\ FindOne(store, "iss").eccentricity = Fx(0, 5000)
    /\ inflight[1].pc = "set_period"
    /\ inflight[1].updates.altitude = Some(Fx(600, 0))
    /\ inflight[2].pc = "find_updated"
    /\ inflight[2].updates.eccentricity = Some(Fx(0, 5000))

C11_PeriodPositive ==
    /\ AllCompleted =>
            \A i \in 1..Len(store) :
                AltitudeInRange(store[i].altitude) => FGt(store[i].period, Fx(0, 0))
    /\ \A altitude \in AltitudeValues :
            AltitudeInRange(altitude) => FGt(calculate_period(altitude), Fx(0, 0))

\* C15: get_orbit_path invokes generate_orbit_path only with a point count that
\* is at least 1 and at most a fixed maximum (the page size limit).
C15_PointCountBounded ==
    (resp.op = "get_orbit_path" /\ resp.status # 404) =>
        (resp.points >= 1 /\ resp.points <= max_page_size)

\* C16: for a stored satellite, whose elements passed validation and whose
\* period was calculated from its altitude, get_orbit_path divides by no zero:
\* the orbital radius, the period in seconds and the sample count are non-zero
\* and no ZeroDivisionError is raised.
C16_NoDivisionByZero ==
    (resp.op = "get_orbit_path" /\ resp.status # 404) =>
        LET satellite == SatelliteObject(FindOne(store, resp.satellite_id))
        IN  /\ Fx(6371, 0) + satellite.altitude # 0
            /\ satellite.period # 0
            /\ resp.points # 0
            /\ ~("raised" \in DOMAIN resp /\ resp.raised = "ZeroDivisionError")

----------------------------------------------------------------------------
(* Properties of the calculator, checked under SpecCalc *)

Done(c, op) == threads[c].pc = "done" /\ threads[c].op = op

\* the period a call works with: the override if there is one, else the
\* Satellite's
PeriodOf(frame) ==
    IF "period" \in DOMAIN frame.passed THEN frame.passed.period
    ELSE frame.satellite.period

\* C13: every generate_orbit_path call returns a sequence of exactly `points`
\* positions.
C13_PathHasRequestedLength ==
    \A c \in Threads :
        Done(c, "generate_orbit_path") =>
            /\ ~Raised(threads[c].result)
            /\ Len(threads[c].result.path_points) = threads[c].args.points

\* C14: in a returned path of N points, sample i (from 0) was taken at time
\* i * (period * 60 / N) and point i is calculate_orbital_position of the same
\* Satellite and overrides at that time; point 0 is the position at sample 0
\* and, with a period > 0, sample 0 is t = 0, the sample times increase
\* strictly in equal steps and the last one lies (N - 1)/N of a period in.
C14_PathSamplesUniformly ==
    \A c \in Threads :
        (Done(c, "generate_orbit_path") /\ ~Raised(threads[c].result)) =>
            LET frame  == threads[c]
                N      == frame.args.points
                path   == frame.result.path_points
                period == PeriodOf(frame)
                at(i)  == IF IsNaN(period) THEN NaN ELSE i * ((period * 60) \div N)
            IN  /\ \A i \in 0..(N - 1) :
                        /\ frame.times[i + 1] = at(i)
                        /\ path[i + 1] = calculate_orbital_position(frame.satellite, at(i),
                                                                    frame.passed)
                /\ (N >= 1 /\ FGt(period, 0)) =>
                        /\ frame.times[1] = 0
                        /\ \A i \in 1..(N - 1) :
                                /\ frame.times[i] < frame.times[i + 1]
                                /\ frame.times[i + 1] - frame.times[i] = (period * 60) \div N
                        /\ N * frame.times[N] <= (N - 1) * period * 60
                        /\ N * frame.times[N] > (N - 1) * (period * 60 - N)

C14_Witness ==
    /\ Done(1, "generate_orbit_path")
    /\ threads[1].args.points = 3
    /\ threads[1].passed = [altitude |-> Fx(600, 0)]
    /\ ~IsNaN(sat.period)
    /\ Len(threads[1].result.path_points) = 3
    /\ threads[1].times[3] > threads[1].times[2]
    /\ threads[1].result.path_points[3] # threads[1].result.path_points[1]

\* two position calls on the same Satellite with the same overrides and a
\* period > 0, the second exactly one period after the first
OnePeriodApart(c1, c2) ==
    /\ Done(c1, "calculate_orbital_position")
    /\ Done(c2, "calculate_orbital_position")
    /\ threads[c1].passed = threads[c2].passed
    /\ FGt(PeriodOf(threads[c1]), 0)
    /\ threads[c2].args.time_seconds
            = threads[c1].args.time_seconds + PeriodOf(threads[c1]) * 60

Abs(n) == IF n < 0 THEN 0 - n ELSE n

\* the coordinates differ by no more than 0.005 scene units, a thousandth of
\* the radius the Earth is drawn with
Close(p, q) ==
    /\ Abs(p.x - q.x) <= Fx(0, 50)
    /\ Abs(p.y - q.y) <= Fx(0, 50)
    /\ Abs(p.z - q.z) <= Fx(0, 50)

\* C17 (as amended): the positions at t and at t + period * 60 agree to within
\* rounding, 0.005 scene units here.
C17_PeriodicWithinRounding ==
    \A c1, c2 \in Threads :
        OnePeriodApart(c1, c2) => Close(threads[c1].result, threads[c2].result)

\* C17 (as stated): the positions at t and at t + period * 60 are equal.
C17_PeriodicExactly ==
    \A c1, c2 \in Threads :
        OnePeriodApart(c1, c2) => threads[c1].result = threads[c2].result

C17_Witness ==
    /\ OnePeriodApart(1, 2)
    /\ threads[1].args.time_seconds = Fx(1000, 5000)
    /\ threads[1].passed = [altitude |-> Fx(600, 0)]
    /\ Close(threads[1].result, threads[2].result)
    /\ threads[1].result # threads[2].result

\* C18: two calls of the same operation with the same arguments on the same
\* Satellite return the same result, whatever calls ran before or between them.
C18_SameArgumentsSameResult ==
    \A c1, c2 \in Threads :
        (/\ threads[c1].pc = "done" /\ threads[c2].pc = "done"
         /\ threads[c1].op = threads[c2].op
         /\ threads[c1].args = threads[c2].args
         /\ threads[c1].passed = threads[c2].passed) =>
            threads[c1].result = threads[c2].result

C18_Witness ==
    /\ Done(1, "calculate_orbital_position")
    /\ Done(2, "calculate_orbital_position")
    /\ threads[1].args = threads[2].args
    /\ threads[1].passed = None
    /\ threads[2].passed = None
    /\ ~IsNaN(sat.altitude)
    /\ threads[1].result = threads[2].result

\* C19: during and after a call the Satellite is as it was when the call was
\* made, and the overrides dict is as it was passed.
C19_ArgumentsLeftUnchanged ==
    \A c \in Threads :
        threads[c].pc # "idle" =>
            /\ sat = threads[c].satellite
            /\ threads[c].custom_params = threads[c].passed

C19_Witness ==
    /\ Done(1, "generate_orbit_path")
    /\ threads[1].args.points = 3
    /\ threads[1].passed = [altitude |-> Fx(600, 0)]
    /\ sat = SatelliteObject(PopulatedStore[3])
    /\ threads[1].result = generate_orbit_path(sat, threads[1].passed, 3)
    /\ threads[1].result # generate_orbit_path(sat, None, 3)

\* what a call returns when no other call runs during it
AloneResult(frame) ==
    CASE frame.op = "calculate_orbital_position" ->
            calculate_orbital_position(frame.satellite, frame.args.time_seconds,
                                       frame.passed)
      [] frame.op = "calculate_velocity" ->
            calculate_velocity(frame.satellite, frame.args.time_seconds, frame.passed)
      [] frame.op = "generate_orbit_path" ->
            generate_orbit_path(frame.satellite, frame.passed, frame.args.points)
      [] frame.op = "validate_orbital_parameters" ->
            validate_orbital_parameters(frame.args.altitude, frame.args.inclination,
                                        frame.args.eccentricity)

\* C20: every call, however the calls of the other threads interleave with it,
\* returns what it returns when run alone.
C20_InterleavingInvisible ==
    \A c \in Threads : threads[c].pc = "done" => threads[c].result = AloneResult(threads[c])

C20_Witness ==
    /\ Done(1, "generate_orbit_path")
    /\ threads[1].args.points = 3
    /\ threads[1].passed = None
    /\ threads[2].pc = "entered"
    /\ threads[2].op = "calculate_velocity"
    /\ threads[2].passed = [altitude |-> Fx(600, 0)]
    /\ ~IsNaN(sat.altitude)

----------------------------------------------------------------------------
(* Properties of the calculator as a function of its arguments, checked under
   SpecOrbit *)

\* the value a call works with for a key: the override if there is one, else
\* the Satellite's
ArgOf(frame, key) ==
    IF key \in DOMAIN frame.passed THEN frame.passed[key] ELSE frame.satellite[key]

\* sqrt(mu / (6371 + altitude)) * (5 / 6371) in units of 1/10^6, from its square
\* mu * 25 / 6371^2 / (6371 + altitude) = 0.2455062621... / (6371 + altitude)
CircularSpeed(altitude) ==
    Isqrt((1964050097 \div ((Fx(6371, 0) + altitude) \div 10000)) * 125)

Magnitude(v) == Isqrt(v.x * v.x + v.y * v.y + v.z * v.z)

\* C21: for an altitude above the surface and a period > 0, the magnitude of
\* the vector calculate_velocity returns is sqrt(mu / (6371 + altitude)) * 5/6371
\* (to 3 parts in 10^6, the resolution here), whatever the time and the period.
C21_SpeedIsCircularSpeed ==
    \A c \in Threads :
        (/\ Done(c, "calculate_velocity")
         /\ FGt(ArgOf(threads[c], "altitude"), 0 - Fx(6371, 0))
         /\ FGt(ArgOf(threads[c], "period"), 0)) =>
            /\ ~Raised(threads[c].result)
            /\ Abs(Magnitude(threads[c].result)
                    - CircularSpeed(ArgOf(threads[c], "altitude"))) <= 3

C21_Witness ==
    /\ Done(1, "calculate_velocity")
    /\ threads[1].args.time_seconds = Fx(1000, 5000)
    /\ threads[1].passed = [altitude |-> Fx(600, 0)]
    /\ threads[1].satellite.altitude = Fx(408, 0)
    /\ threads[1].satellite.period = StalePeriod
    /\ threads[1].result.x < 0
    /\ threads[1].result.y # 0
    /\ Abs(Magnitude(threads[1].result) - 5934) <= 3

\* 2 * pi * sqrt((6371 + altitude)^3 / 398600.4418) / 60 minutes in units of
\* 1/10^5, for a whole number of km: with s = 6371 + altitude,
\*   n     10^10 * s / mu          (10^10 / mu = 25087.7795),
\*   r0    the whole part of sqrt(n), root its next three decimals by one
\*         Newton step, so that root = 10^8 * sqrt(s / mu),
\*   t     10^5 * s * sqrt(s / mu),
\* and 2 * pi / 60 = 0.1047 + 0.000019755.
KeplerPeriod(altitude) ==
    LET s    == (Fx(6371, 0) + altitude) \div 10000
        n    == s * 25087 + (s * 7795) \div 10000
        r0   == Isqrt(n)
        root == r0 * 1000 + ((n - r0 * r0) * 1000) \div (2 * r0)
        t    == MulDiv(root, s, 1000)
    IN  MulDiv(t, 1047, 10000) + MulDiv(t \div 10000, 19755, 100000)

\* a and b differ by no more than 0.01 % of b
WithinTolerance(a, b) == Abs(a - b) * 10000 <= b

\* C22 (as amended): for every valid altitude calculate_period returns
\* 2 * pi * sqrt((6371 + altitude)^3 / 398600.4418) / 60 to within 0.01 %.
C22_PeriodMatchesKepler ==
    \A c \in Threads :
        (Done(c, "calculate_period") /\ AltitudeInRange(threads[c].args.altitude)) =>
            WithinTolerance(threads[c].result * 10, KeplerPeriod(threads[c].args.altitude))

\* C22 (as stated): the same, and for altitude 408 the value is 92.8 minutes to
\* that tolerance.
C22_PeriodMatchesKeplerAnd92_8 ==
    \A c \in Threads :
        (Done(c, "calculate_period") /\ AltitudeInRange(threads[c].args.altitude)) =>
            /\ WithinTolerance(threads[c].result * 10,
                               KeplerPeriod(threads[c].args.altitude))
            /\ threads[c].args.altitude = Fx(408, 0) =>
                    WithinTolerance(threads[c].result, Fx(92, 8000))

C22_Witness ==
    /\ Done(1, "calculate_period")
    /\ threads[1].args.altitude = Fx(408, 0)
    /\ threads[1].satellite.period = StalePeriod
    /\ sat.period = threads[1].result
    /\ WithinTolerance(threads[1].result, Fx(92, 5781))

\* the overrides p and q give the same altitude and period, or neither
SameSizeAndPeriod(p, q) ==
    \A k \in {"altitude", "period"} :
        /\ (k \in DOMAIN p) = (k \in DOMAIN q)
        /\ k \in DOMAIN p => p[k] = q[k]

\* C24: the z component of every velocity is 0, and the call returns what any
\* call returns that differs from it only in inclination and eccentricity, in
\* the Satellite or in the overrides.
C24_VelocityIgnoresPlaneAndShape ==
    \A c \in Threads :
        (Done(c, "calculate_velocity") /\ ~Raised(threads[c].result)) =>
            /\ threads[c].result.z = 0
            /\ \A inclination \in InclinationValues, eccentricity \in EccentricityValues :
               \A custom_params \in OrbitOverrides :
                    SameSizeAndPeriod(custom_params, threads[c].passed) =>
                        calculate_velocity(
                            [threads[c].satellite EXCEPT !.inclination = inclination,
                                                         !.eccentricity = eccentricity],
                            threads[c].args.time_seconds, custom_params)
                          = threads[c].result

C24_Witness ==
    /\ Done(1, "calculate_velocity")
    /\ threads[1].passed = [inclination |-> Fx(0, 0), eccentricity |-> Fx(0, 5000)]
    /\ threads[1].satellite.inclination = Fx(98, 2000)
    /\ threads[1].args.time_seconds = Fx(1000, 5000)
    /\ threads[1].result.z = 0
    /\ threads[1].result.y # 0
    /\ threads[1].result
            = calculate_velocity(threads[1].satellite, threads[1].args.time_seconds, None)

OrbitalFields == {"altitude", "inclination", "eccentricity", "period"}

\* the Satellite's fields with each overridden one replaced by its override
EffectiveParams(frame) ==
    [k \in DOMAIN frame.satellite |->
        IF k \in OrbitalFields THEN ArgOf(frame, k) ELSE frame.satellite[k]]

\* what a call is to return when it works with the effective params
EffectiveResult(frame) ==
    LET params == EffectiveParams(frame)
    IN  CASE frame.op = "calculate_orbital_position" ->
                PositionOf(params, frame.args.time_seconds)
          [] frame.op = "calculate_velocity" ->
                VelocityOf(params, frame.args.time_seconds)
          [] frame.op = "generate_orbit_path" ->
                [path_points |->
                    [k \in 1..frame.args.points |->
                        PositionOf(params,
                                   (k - 1) * ((params.period * 60) \div frame.args.points))]]

CalculatorOps == {"calculate_orbital_position", "calculate_velocity", "generate_orbit_path"}

\* C25: each calculator call works with the override of altitude, inclination,
\* eccentricity and period where one was passed and with the Satellite's value
\* otherwise, while it runs and in what it returns; an override of the altitude
\* alone leaves it working with the Satellite's period.
C25_OverridesTakePrecedence ==
    \A c \in Threads :
        (threads[c].pc # "idle" /\ threads[c].op \in CalculatorOps) =>
            /\ threads[c].pc # "done" =>
                    /\ \A k \in OrbitalFields : threads[c].params[k] = ArgOf(threads[c], k)
                    /\ ("altitude" \in DOMAIN threads[c].passed
                            /\ "period" \notin DOMAIN threads[c].passed) =>
                            threads[c].params.period = threads[c].satellite.period
            /\ threads[c].pc = "done" => threads[c].result = EffectiveResult(threads[c])

C25_Witness ==
    /\ Done(1, "calculate_orbital_position")
    /\ threads[1].passed = [altitude |-> Fx(600, 0)]
    /\ threads[1].satellite.altitude = Fx(408, 0)
    /\ threads[1].satellite.period = calculate_period(Fx(408, 0))
    /\ threads[1].args.time_seconds = Fx(1000, 5000)
    /\ threads[1].result
            = PositionOf([threads[1].satellite EXCEPT !.altitude = Fx(600, 0)],
                         Fx(1000, 5000))
    /\ threads[1].result
            # PositionOf([threads[1].satellite EXCEPT
                            !.altitude = Fx(600, 0),
                            !.period = calculate_period(Fx(600, 0))],
                         Fx(1000, 5000))
    /\ threads[1].result # PositionOf(threads[1].satellite, Fx(1000, 5000))

----------------------------------------------------------------------------
(* Properties of the mutating routes with their dependency, checked under
   SpecAuth *)

MutatingOps ==
    {"create_custom_satellite", "update_satellite", "save_configuration",
     "delete_configuration", "update_preferences"}

\* the request carries a bearer token that verifies and has the audience and
\* the issuer the settings ask for
CarriesValidToken(cfg, credentials) ==
    /\ credentials # None
    /\ credentials[1].verifies
    /\ cfg.jwt_audience # "" =>
            ("aud" \in DOMAIN credentials[1].payload
                /\ credentials[1].payload.aud = cfg.jwt_audience)
    /\ cfg.jwt_issuer # "" =>
            ("iss" \in DOMAIN credentials[1].payload
                /\ credentials[1].payload.iss = cfg.jwt_issuer)

\* the token's roles claim is a list that contains every required role
HasEveryRole(cfg, credentials) ==
    /\ "roles" \in DOMAIN credentials[1].payload
    /\ credentials[1].payload.roles.type = "list"
    /\ \A i \in 1..Len(cfg.jwt_required_roles) :
            \E j \in 1..Len(credentials[1].payload.roles.items) :
                credentials[1].payload.roles.items[j] = JStr(cfg.jwt_required_roles[i])

Collections == <<store, configurations, preferences>>

\* C26: with auth enabled and roles required, a request to a mutating route
\* changes a collection only if it carries a valid token whose roles claim is a
\* list with every required role; without a valid token it is answered 401,
\* with a valid token whose roles claim is no list or lacks a required role it
\* is answered 403, and in both cases the collections are unchanged.
C26_MutationsNeedRoles ==
    [][(/\ resp'.op \in MutatingOps
        /\ settings.auth_enabled
        /\ settings.jwt_required_roles # <<>>) =>
            LET valid == CarriesValidToken(settings, resp'.credentials)
                roles == valid /\ HasEveryRole(settings, resp'.credentials)
            IN  /\ Collections' # Collections => roles
                /\ ~valid => (resp'.status = 401 /\ Collections' = Collections)
                /\ (valid /\ ~roles) =>
                        (resp'.status = 403 /\ Collections' = Collections)]_vars

\* what holds of every request the dependency does not let through: it is
\* answered 401, 403 or 500 and changes no collection
AuthRejectedChangesNothing ==
    [][(/\ resp'.op \in MutatingOps
        /\ settings.auth_enabled
        /\ settings.jwt_required_roles # <<>>
        /\ ~(/\ CarriesValidToken(settings, resp'.credentials)
              /\ HasEveryRole(settings, resp'.credentials))) =>
            /\ resp'.status \in {401, 403, 500}
            /\ Collections' = Collections]_vars

----------------------------------------------------------------------------
(* Properties of the read and utility routes, checked under SpecRead *)

ReadOps == {"get_satellite", "get_orbit_path", "start_tracking_satellite",
            "get_satellite_positions"}

\* C29: get_satellite, get_orbit_path, validate_orbital_params,
\* start_tracking_satellite and get_satellite_positions leave the stored
\* satellites as they were, and get_satellites changes them only when it found
\* the collection empty.
C29_ReadsLeaveSatellites ==
    [][/\ (resp'.op \in ReadOps \/ vcall' # vcall) => store' = store
       /\ (resp'.op = "get_satellites" /\ store' # store) => store = <<>>]_vars

C29_Witness ==
    /\ resp.op = "start_tracking_satellite"
    /\ resp.status = 200
    /\ vcall.called
    /\ store = UpdatedStore

====
